---------------------------- MODULE Spec2Model ----------------------------
(***************************************************************************)
(* State-machine model of the UDP -> WebRTC relay server                   *)
(* (src/server/server.js): datagram ingestion into videoBuffer, the        *)
(* request-video-data window, the broadcaster / viewer registry, the       *)
(* signaling relays, the per-connection and HTTP rate gates and connection *)
(* handling.                                                               *)
(*                                                                         *)
(* Every Socket.IO / dgram callback runs to completion, so each callback   *)
(* is one action.  Date.now() is the variable now, advanced by Tick.       *)
(*                                                                         *)
(* Of the clients, the broadcaster's page (src/public/js/stream.js) is     *)
(* modelled with its socket, its listeners and its peer connections.  The  *)
(* viewer page defines no WebRTCHandler: the text of the class (stored     *)
(* behind src/public/index.html) is rejected by the parser at the for      *)
(* statement of line 515, so the page's DOMContentLoaded handler           *)
(* (src/unnamed/part_000) throws at `new WebRTCHandler()`, after it has    *)
(* opened its socket and before it registers a listener or emits an        *)
(* event.  To the server that page is a connection that sends nothing;     *)
(* clients that page through the buffer are modelled by the requests they  *)
(* send.                                                                   *)
(***************************************************************************)
EXTENDS Integers, Sequences, FiniteSets, TLC

(***************************************************************************)
(* Bounds of the model.                                                    *)
(***************************************************************************)
\* MAX_BUFFER_SIZE is read from the environment ("Max buffer size in
\* bytes"); the model runs the server with a ceiling of a few bytes.
MAX_BUFFER_SIZE == 5
\* Number of datagrams ingested in one run.
MaxDatagrams == 3
\* Number of connections made in one run (ids are never reused); one more
\* than the per-address cap.
MaxSockets == 11
\* Number of connections in one run of the specifications of the data
\* window, the registry and the relays.
MaxSessionSockets == 3
\* Datagrams plus connections plus request-video-data events in one run of
\* the data-window specification.
MaxWindowSteps == 5
\* Connections plus registry events in one run of the registry specification.
MaxSessionSteps == 7
\* Connections plus registry events in one run of the shorter registry
\* specification.
MaxFollowSteps == 6
\* Datagrams, connections, client events and status queries in one run of
\* the specification of everything beside ingestion.
MaxFrameSteps == 5
\* Connections plus client events in one run of the negotiation
\* specification.
MaxNegotiationSteps == 5
\* Connections plus client events in one run of the notice specification.
MaxNoticeSteps == 6
\* Events of the stream page on their way to the server.
MaxUplink == 1
\* getUserMedia() calls of the stream page that have not settled.
MaxMediaRequests == 2
\* Connections in one run of the paging specification, and datagrams plus
\* connections plus request-video-data events.
MaxPagerSockets == 1
MaxPagingSteps == 18
\* Connections plus relay events in one run of the relay specification.
MaxRelaySteps == 5
\* Connections, socket events and HTTP requests in one run of the rate-gate
\* specification.
MaxGateSteps == 8
\* config.rateLimitMaxRequests, read from the environment; the model runs the
\* server with a limit of a few requests per interval.
rateLimitMaxRequests == 3
\* Last clock value (ms since start).
MaxTime == 1001

\* Clock increments: 1000 and 1001 give differences at and above the
\* 1000 ms windows of the code.
TickSteps == {1000, 1001}
\* The clock of the ingestion specification can also stop just short of the
\* data-rate window.
RateTickSteps == TickSteps \cup {999}

(***************************************************************************)
(* Program constants.                                                      *)
(***************************************************************************)
MaxChunkSize == 20
DefaultChunkSize == 10
RateLimitWindow == 1000
rateLimitInterval == 1000
DataRateWindow == 1000
MaxConnectionsPerIp == 10
StrictEventLimit == 5
SignalEventLimit == 30

(***************************************************************************)
(* Values.                                                                 *)
(***************************************************************************)
\* The JavaScript value undefined, as a Map key or a property value (no client
\* of the model sends the text "undefined").
Undefined == "undefined"
StreamIds == {"s1"}
\* What `const { streamId } = data` can yield.
StreamKeys == StreamIds \cup {Undefined}
AllIds == 1..MaxSockets
Addresses == {"10.0.0.1"}
\* Originating addresses in the specification of the connection cap.
CapAddresses == Addresses \cup {"10.0.0.2"}
UdpSenders == {"192.0.2.1:5000"}
\* req.ip of the HTTP clients.
HttpClients == {"10.0.0.1", "10.0.0.2"}

\* Datagram payloads (byte sequences): "", "Ma", "Man", "Many ha".
Datagrams == { <<>>, <<77, 97>>, <<77, 97, 110>>,
               <<77, 97, 110, 121, 32, 104, 97>> }

Min(a, b) == IF a < b THEN a ELSE b
Max(a, b) == IF a > b THEN a ELSE b

EmptyMap == [k \in {} |-> 0]
MapSet(m, k, v) == [x \in (DOMAIN m) \cup {k} |-> IF x = k THEN v ELSE m[x]]
MapDelete(m, k) == [x \in (DOMAIN m) \ {k} |-> m[x]]
MapHas(m, k) == k \in DOMAIN m

(***************************************************************************)
(* createHash('md5').update(msg).digest('hex').substring(0, 8), tabulated  *)
(* for the datagrams of the model.                                         *)
(***************************************************************************)
PacketId(msg) ==
  CASE msg = <<>> -> "d41d8cd9"
    [] msg = <<77, 97>> -> "1ce81ddc"
    [] msg = <<77, 97, 110>> -> "627661c6"
    [] msg = <<77, 97, 110, 121, 32, 104, 97>> -> "2de620c2"

(***************************************************************************)
(* Buffer.toString('base64'): RFC 4648 alphabet with '=' padding.  The     *)
(* text is a sequence of one-character strings.                            *)
(***************************************************************************)
Base64Alphabet ==
  << "A","B","C","D","E","F","G","H","I","J","K","L","M","N","O","P",
     "Q","R","S","T","U","V","W","X","Y","Z","a","b","c","d","e","f",
     "g","h","i","j","k","l","m","n","o","p","q","r","s","t","u","v",
     "w","x","y","z","0","1","2","3","4","5","6","7","8","9","+","/" >>

Base64Char(n) == Base64Alphabet[n + 1]

RECURSIVE Base64Encode(_)
Base64Encode(bytes) ==
  IF Len(bytes) = 0 THEN <<>>
  ELSE IF Len(bytes) = 1 THEN
    << Base64Char(bytes[1] \div 4), Base64Char((bytes[1] % 4) * 16), "=", "=" >>
  ELSE IF Len(bytes) = 2 THEN
    << Base64Char(bytes[1] \div 4),
       Base64Char((bytes[1] % 4) * 16 + bytes[2] \div 16),
       Base64Char((bytes[2] % 16) * 4), "=" >>
  ELSE
    << Base64Char(bytes[1] \div 4),
       Base64Char((bytes[1] % 4) * 16 + bytes[2] \div 16),
       Base64Char((bytes[2] % 16) * 4 + bytes[3] \div 64),
       Base64Char(bytes[3] % 64) >> \o Base64Encode(SubSeq(bytes, 4, Len(bytes)))

(***************************************************************************)
(* State.                                                                  *)
(***************************************************************************)
VARIABLES
  now,                      \* Date.now()
  crashed,                  \* the process died on an uncaught exception
  udpOpen,                  \* the UDP socket has not been closed
  videoBuffer,              \* sequence of packets, oldest first
  udpCount,                 \* history: datagrams ingested so far
  arrivals,                 \* history: arrival time and size of each datagram
  bytesReceivedLastSecond,
  lastDataRateUpdate,
  currentDataRate,
  sockets,                  \* io.sockets.sockets: id -> handshake.address
  nextSocket,               \* history: connections made so far
  eventCount,               \* history: client events received so far
  broadcasters,             \* streamId -> socket id
  viewers,                  \* streamId -> set of socket ids
  socketRoles,              \* socket id -> [role, streamId]
  socketRateLimits,         \* socket id -> [timestamp, count]
  roleEventsSent,           \* history: socket id -> role-change events received
  clientRequests,           \* req.ip -> [count, timestamp]
  httpCount,                \* history: HTTP requests received so far
  statusPending,            \* GET /api/status past the rate limiter: req.ip
  peerConnections,          \* stream page: property key -> peer connection
  pendingOffers,            \* stream page: createOffer() chains not yet settled
  gathering,                \* stream page: open connections with a local description
  pcCount,                  \* stream page: RTCPeerConnections made so far
  isStreaming,              \* stream page
  pageStreamId,             \* stream page: streamId, '' until the first 'connect'
  pageSocket,               \* stream page: id of its latest connection, 0 before
  pageState,                \* stream page: its socket is closed, opening or open
  mediaRequests,            \* stream page: getUserMedia() calls not yet settled
  pageInbox,                \* stream page: notices received, not yet handled
  uplink,                   \* stream page: events emitted, not yet at the server
  pager,                    \* history: id -> its paging sequence
  notices,                  \* history: <<source, follower>> pairs told connected
  delivered,                \* id -> messages the last callback sent to it
  lastEvent                 \* history: the last callback and its input

udpVars == << udpOpen, videoBuffer, udpCount, arrivals, bytesReceivedLastSecond,
              lastDataRateUpdate, currentDataRate >>
regVars == << broadcasters, viewers, socketRoles >>
connVars == << sockets, nextSocket >>
httpVars == << clientRequests, httpCount, statusPending >>
streamPageVars == << peerConnections, pendingOffers, gathering, pcCount,
                     isStreaming, pageStreamId, pageSocket, pageState,
                     mediaRequests, pageInbox, uplink >>
clientVars == << streamPageVars, pager >>
pageVars == << clientVars, notices >>
vars == << now, crashed, udpVars, connVars, eventCount, regVars,
           socketRateLimits, roleEventsSent, httpVars, pageVars, delivered,
           lastEvent >>

NoMessages == [c \in AllIds |-> <<>>]

\* target.emit(...) on a socket looked up in io.sockets.sockets.
EmitTo(d, open, c, m) ==
  IF c \in open THEN [d EXCEPT ![c] = Append(@, m)] ELSE d

\* for (const id of set) { const s = io.sockets.sockets.get(id); if (s) s.emit(...) }
EmitToEach(d, open, ids, m) ==
  [c \in AllIds |-> IF c \in ids /\ c \in open THEN Append(d[c], m) ELSE d[c]]

\* socket.broadcast.emit(...): every connected socket except the sender.
BroadcastEmit(d, open, sender, m) == EmitToEach(d, open, open \ {sender}, m)

\* io.emit(...): every connected socket.
IoEmit(d, open, m) == EmitToEach(d, open, open, m)

Init ==
  /\ now = 0
  /\ crashed = FALSE
  /\ udpOpen = TRUE
  /\ videoBuffer = <<>>
  /\ udpCount = 0
  /\ arrivals = <<>>
  /\ bytesReceivedLastSecond = 0
  /\ lastDataRateUpdate = 0
  /\ currentDataRate = 0
  /\ sockets = EmptyMap
  /\ nextSocket = 0
  /\ eventCount = 0
  /\ broadcasters = EmptyMap
  /\ viewers = EmptyMap
  /\ socketRoles = EmptyMap
  /\ socketRateLimits = EmptyMap
  /\ roleEventsSent = EmptyMap
  /\ clientRequests = EmptyMap
  /\ httpCount = 0
  /\ statusPending = <<>>
  /\ peerConnections = EmptyMap
  /\ pendingOffers = <<>>
  /\ gathering = {}
  /\ pcCount = 0
  /\ isStreaming = FALSE
  /\ pageStreamId = ""
  /\ pageSocket = 0
  /\ pageState = "closed"
  /\ mediaRequests = 0
  /\ pageInbox = <<>>
  /\ uplink = <<>>
  /\ pager = EmptyMap
  /\ notices = {}
  /\ delivered = NoMessages
  /\ lastEvent = [op |-> "start"]

(***************************************************************************)
(* The clock.                                                              *)
(***************************************************************************)
Tick(d) ==
  /\ ~crashed
  /\ UNCHANGED pageVars
  /\ now + d <= MaxTime
  /\ now' = now + d
  /\ delivered' = NoMessages
  /\ lastEvent' = [op |-> "tick"]
  /\ UNCHANGED << crashed, udpVars, connVars, eventCount, regVars,
                  socketRateLimits, roleEventsSent, httpVars >>

(***************************************************************************)
(* Datagram ingestion: udpServer.on('message').                            *)
(***************************************************************************)
RECURSIVE TotalSize(_)
\* videoBuffer.reduce((total, packet) => total + packet.data.length, 0)
TotalSize(buf) ==
  IF buf = <<>> THEN 0 ELSE Len(buf[1].data) + TotalSize(Tail(buf))

\* Faulty variant: a single shift instead of the loop.
EvictOnce(buf) ==
  IF Len(buf) > 0 /\ TotalSize(buf) > MAX_BUFFER_SIZE THEN Tail(buf) ELSE buf
RECURSIVE EvictNewest(_)
\* Faulty variant: pop() instead of shift().
EvictNewest(buf) ==
  IF Len(buf) > 0 /\ TotalSize(buf) > MAX_BUFFER_SIZE
  THEN EvictNewest(SubSeq(buf, 1, Len(buf) - 1))
  ELSE buf
RECURSIVE Evict(_)
\* while (videoBuffer.length > 0 && total > MAX_BUFFER_SIZE) videoBuffer.shift()
Evict(buf) ==
  IF Len(buf) > 0 /\ TotalSize(buf) > MAX_BUFFER_SIZE
  THEN Evict(Tail(buf))
  ELSE buf

\* The packet object pushed for a datagram; seq is its arrival number
\* (history, not a field of the program's object).
NewPacket(msg) ==
  [ id |-> PacketId(msg), data |-> msg, timestamp |-> now, size |-> Len(msg),
    seq |-> udpCount + 1 ]

\* Faulty variant: the metric is recomputed on every datagram.
DataRateDueAlways == TRUE
\* if (now - lastDataRateUpdate >= 1000)
DataRateDue == now - lastDataRateUpdate >= DataRateWindow

UdpMessage(msg, sender) ==
  /\ ~crashed
  /\ UNCHANGED pageVars
  /\ udpOpen
  /\ udpCount < MaxDatagrams
  /\ udpCount' = udpCount + 1
  /\ arrivals' = Append(arrivals, [time |-> now, size |-> Len(msg)])
  /\ videoBuffer' = Evict(Append(videoBuffer, NewPacket(msg)))
  /\ IF DataRateDue
     THEN /\ currentDataRate' = bytesReceivedLastSecond + Len(msg)
          /\ bytesReceivedLastSecond' = 0
          /\ lastDataRateUpdate' = now
     ELSE /\ bytesReceivedLastSecond' = bytesReceivedLastSecond + Len(msg)
          /\ UNCHANGED << currentDataRate, lastDataRateUpdate >>
  /\ delivered' = IoEmit(NoMessages, DOMAIN sockets,
                         [ event |-> "udp-data", timestamp |-> now,
                           size |-> Len(msg), sender |-> sender,
                           dataRate |-> currentDataRate' ])
  /\ lastEvent' = [op |-> "udp-message", msg |-> msg]
  /\ UNCHANGED << now, crashed, udpOpen, connVars, eventCount, regVars,
                  socketRateLimits, roleEventsSent, httpVars >>

\* udpServer.on('error'): logs and closes the socket.
UdpError ==
  /\ ~crashed
  /\ UNCHANGED pageVars
  /\ udpOpen
  /\ udpOpen' = FALSE
  /\ delivered' = NoMessages
  /\ lastEvent' = [op |-> "udp-error"]
  /\ UNCHANGED << now, crashed, videoBuffer, udpCount, arrivals,
                  bytesReceivedLastSecond,
                  lastDataRateUpdate, currentDataRate, connVars, eventCount,
                  regVars, socketRateLimits, roleEventsSent, httpVars >>

\* udpServer.bind(UDP_PORT, '0.0.0.0') fails (the port is taken, say): the
\* socket emits 'error' instead of 'listening', before anything else has
\* happened, and the same callback runs.  The HTTP server is listening by then
\* and keeps the process alive.
UdpBindError ==
  /\ ~crashed
  /\ UNCHANGED pageVars
  /\ lastEvent.op = "start"
  /\ udpOpen' = FALSE
  /\ delivered' = NoMessages
  /\ lastEvent' = [op |-> "udp-bind-error"]
  /\ UNCHANGED << now, crashed, videoBuffer, udpCount, arrivals,
                  bytesReceivedLastSecond,
                  lastDataRateUpdate, currentDataRate, connVars, eventCount,
                  regVars, socketRateLimits, roleEventsSent, httpVars >>

(***************************************************************************)
(* An uncaught exception in a callback ends the process: everything held   *)
(* in memory is lost and every connection is gone.                         *)
(***************************************************************************)
Crash(op, c) ==
  /\ crashed' = TRUE
  /\ udpOpen' = FALSE
  /\ videoBuffer' = <<>>
  /\ udpCount' = udpCount
  /\ arrivals' = <<>>
  /\ bytesReceivedLastSecond' = 0
  /\ lastDataRateUpdate' = 0
  /\ currentDataRate' = 0
  /\ sockets' = EmptyMap
  /\ nextSocket' = nextSocket
  /\ eventCount' = eventCount + 1
  /\ broadcasters' = EmptyMap
  /\ viewers' = EmptyMap
  /\ socketRoles' = EmptyMap
  /\ socketRateLimits' = EmptyMap
  /\ roleEventsSent' = EmptyMap
  /\ clientRequests' = EmptyMap
  /\ statusPending' = <<>>
  /\ delivered' = NoMessages
  /\ lastEvent' = [op |-> op, socket |-> c, outcome |-> "crashed"]
  /\ UNCHANGED << now, httpCount >>

(***************************************************************************)
(* rateLimitSocketEvent(socket, limit): one window per socket.id.          *)
(***************************************************************************)
\* Faulty variant: the window is reset once the interval has passed exactly.
RateLimitedEarlyReset(c, limit) ==
  /\ MapHas(socketRateLimits, c)
  /\ ~(now - socketRateLimits[c].timestamp >= RateLimitWindow)
  /\ socketRateLimits[c].count >= limit
\* The value returned: TRUE when the event is to be dropped.
RateLimited(c, limit) ==
  /\ MapHas(socketRateLimits, c)
  /\ ~(now - socketRateLimits[c].timestamp > RateLimitWindow)
  /\ socketRateLimits[c].count >= limit

\* socketRateLimits after the call.
RateLimitsAfter(c, limit) ==
  IF ~MapHas(socketRateLimits, c)
  THEN MapSet(socketRateLimits, c, [timestamp |-> now, count |-> 1])
  ELSE IF now - socketRateLimits[c].timestamp > RateLimitWindow
  THEN MapSet(socketRateLimits, c, [timestamp |-> now, count |-> 1])
  ELSE IF socketRateLimits[c].count >= limit
  THEN socketRateLimits
  ELSE MapSet(socketRateLimits, c,
              [timestamp |-> socketRateLimits[c].timestamp,
               count |-> socketRateLimits[c].count + 1])

\* The role-change events: registration and unregistration of a source or
\* a follower.
RoleOps == { "register-broadcaster", "unregister-broadcaster",
             "register-viewer", "unregister-viewer" }

\* History of the role-change events a connection has sent.
RoleEventsAfter(op, c) ==
  IF op \in RoleOps
  THEN MapSet(roleEventsSent, c,
              (IF MapHas(roleEventsSent, c) THEN roleEventsSent[c] ELSE 0) + 1)
  ELSE roleEventsSent

\* Faulty variant: the sender of a dropped event is disconnected.
DroppedAndClosed(op, c, data, limit) ==
  /\ socketRateLimits' = MapDelete(socketRateLimits, c)
  /\ sockets' = MapDelete(sockets, c)
  /\ delivered' = NoMessages
  /\ lastEvent' = [op |-> op, socket |-> c, data |-> data, outcome |-> "rate-limited"]
  /\ eventCount' = eventCount + 1
  /\ roleEventsSent' = RoleEventsAfter(op, c)
  /\ UNCHANGED << now, crashed, udpVars, nextSocket, regVars, httpVars >>
\* A callback that returns at its rate-limit check.
Dropped(op, c, data, limit) ==
  /\ socketRateLimits' = RateLimitsAfter(c, limit)
  /\ delivered' = NoMessages
  /\ lastEvent' = [op |-> op, socket |-> c, data |-> data, outcome |-> "rate-limited"]
  /\ eventCount' = eventCount + 1
  /\ roleEventsSent' = RoleEventsAfter(op, c)
  /\ UNCHANGED << now, crashed, udpVars, connVars, regVars, httpVars >>

(***************************************************************************)
(* The HTTP rate-limiting middleware: one window per req.ip.               *)
(***************************************************************************)
\* TRUE when the request is answered 429 Too Many Requests.
HttpLimited(ip) ==
  /\ MapHas(clientRequests, ip)
  /\ ~(now - clientRequests[ip].timestamp > rateLimitInterval)
  /\ clientRequests[ip].count >= rateLimitMaxRequests

\* clientRequests after the middleware has run.
ClientRequestsAfter(ip) ==
  IF ~MapHas(clientRequests, ip)
  THEN MapSet(clientRequests, ip, [count |-> 1, timestamp |-> now])
  ELSE IF now - clientRequests[ip].timestamp > rateLimitInterval
  THEN MapSet(clientRequests, ip, [count |-> 1, timestamp |-> now])
  ELSE IF clientRequests[ip].count >= rateLimitMaxRequests
  THEN clientRequests
  ELSE MapSet(clientRequests, ip,
              [count |-> clientRequests[ip].count + 1,
               timestamp |-> clientRequests[ip].timestamp])

\* An HTTP request from ip reaches the middleware; what runs behind it
\* (static files) writes nothing.
HttpRequest(ip) ==
  /\ ~crashed
  /\ UNCHANGED << pageVars, statusPending >>
  /\ clientRequests' = ClientRequestsAfter(ip)
  /\ httpCount' = httpCount + 1
  /\ delivered' = NoMessages
  /\ lastEvent' = [ op |-> "http-request", ip |-> ip,
                    outcome |-> IF HttpLimited(ip) THEN "rate-limited" ELSE "handled" ]
  /\ UNCHANGED << now, crashed, udpVars, connVars, eventCount, regVars,
                  socketRateLimits, roleEventsSent >>

RECURSIVE TotalViewers(_)
\* [...viewers.values()].reduce((total, viewerSet) => total + viewerSet.size, 0)
\* over the follower sets of the streams in keys.
TotalViewers(keys) ==
  IF keys = {} THEN 0
  ELSE LET k == CHOOSE x \in keys : TRUE
       IN Cardinality(viewers[k]) + TotalViewers(keys \ {k})

\* The body app.get('/api/status') answers with (the fields read from the
\* program's state).
Status ==
  [ serverTime |-> now, videoBufferSize |-> Len(videoBuffer),
    dataRate |-> currentDataRate,
    activeStreams |-> Cardinality(DOMAIN broadcasters),
    totalViewers |-> TotalViewers(DOMAIN viewers) ]

\* GET /api/status from ip reaches the rate limiter: 429, or next() into
\* express.static, which looks for a file named api/status on disk and
\* calls next() from the callback of that lookup, in a later turn.
ApiStatus(ip) ==
  /\ ~crashed
  /\ UNCHANGED pageVars
  /\ clientRequests' = ClientRequestsAfter(ip)
  /\ httpCount' = httpCount + 1
  /\ statusPending' = IF HttpLimited(ip) THEN statusPending
                      ELSE Append(statusPending, ip)
  /\ delivered' = NoMessages
  /\ lastEvent' = [ op |-> "api-status-request", ip |-> ip,
                    outcome |-> IF HttpLimited(ip) THEN "rate-limited" ELSE "handled" ]
  /\ UNCHANGED << now, crashed, udpVars, connVars, eventCount, regVars,
                  socketRateLimits, roleEventsSent >>

\* statusPending without its i-th request.
WithoutRequest(i) ==
  SubSeq(statusPending, 1, i - 1) \o SubSeq(statusPending, i + 1, Len(statusPending))

\* app.get('/api/status'): the i-th waiting request reaches the route, which
\* answers with the state of that moment.
ApiStatusRoute(i) ==
  /\ ~crashed
  /\ UNCHANGED pageVars
  /\ i \in DOMAIN statusPending
  /\ statusPending' = WithoutRequest(i)
  /\ delivered' = NoMessages
  /\ lastEvent' = [ op |-> "api-status", ip |-> statusPending[i],
                    outcome |-> "handled", status |-> Status ]
  /\ UNCHANGED << now, crashed, udpVars, connVars, eventCount, regVars,
                  socketRateLimits, roleEventsSent, clientRequests, httpCount >>

(***************************************************************************)
(* io.on('connection').                                                    *)
(***************************************************************************)
\* Faulty variant: every open connection counts, whatever its address.
ClientsOfAnyIP(open, addr) == Cardinality(DOMAIN open)
\* [...io.sockets.sockets.values()].filter(s => same address).length; the
\* new socket is already in io.sockets.sockets.
ClientsWithSameIP(open, addr) == Cardinality({ s \in DOMAIN open : open[s] = addr })

ConnectCallback(addr) ==
  /\ ~crashed
  /\ nextSocket < MaxSockets
  /\ LET c == nextSocket + 1
         joined == MapSet(sockets, c, addr)
     IN /\ nextSocket' = c
        /\ IF ClientsWithSameIP(joined, addr) > MaxConnectionsPerIp
           THEN \* socket.disconnect(true); return
                /\ sockets' = sockets
                /\ delivered' = NoMessages
                /\ lastEvent' = [ op |-> "connection", socket |-> c,
                                  address |-> addr, outcome |-> "refused" ]
           ELSE /\ sockets' = joined
                /\ delivered' = EmitTo(NoMessages, DOMAIN joined, c,
                     [ event |-> "connection-established",
                       bufferSize |-> Len(videoBuffer),
                       message |-> "Connected to UDP-WebRTC bridge",
                       serverTime |-> now,
                       networkStats |-> [dataRate |-> currentDataRate] ])
                /\ lastEvent' = [ op |-> "connection", socket |-> c,
                                  address |-> addr, outcome |-> "handled" ]
  /\ UNCHANGED << now, crashed, udpVars, eventCount, regVars, socketRateLimits,
                  roleEventsSent, httpVars >>

Connect(addr) == ConnectCallback(addr) /\ UNCHANGED pageVars

(***************************************************************************)
(* socket.on('request-video-data').                                        *)
(***************************************************************************)
\* A property read from the payload is <<>> (absent) or <<n>>.
\* `x || d`: d when x is undefined or 0.
OrDefault(opt, d) == IF opt = <<>> \/ opt[1] = 0 THEN d ELSE opt[1]

\* Array.prototype.slice(start, end), indices counted from 0.
JsSlice(arr, start, end) ==
  LET len == Len(arr)
      k == IF start < 0 THEN Max(len + start, 0) ELSE Min(start, len)
      final == IF end < 0 THEN Max(len + end, 0) ELSE Min(end, len)
  IN IF final > k THEN SubSeq(arr, k + 1, final) ELSE <<>>

\* Math.min(requestInfo.chunkSize || 10, 20)
ChunkSizeOf(requestInfo) ==
  Min(OrDefault(requestInfo.chunkSize, DefaultChunkSize), MaxChunkSize)

\* Math.min(requestInfo.startIndex || 0, videoBuffer.length - 1)
ValidStartIndex(requestInfo) ==
  Min(OrDefault(requestInfo.startIndex, 0), Len(videoBuffer) - 1)

RECURSIVE Reverse(_)
Reverse(seq) == IF seq = <<>> THEN <<>> ELSE Append(Reverse(Tail(seq)), seq[1])
\* Faulty variant: the slice handed out newest first.
DataToSendReversed(requestInfo) ==
  Reverse(JsSlice(videoBuffer, ValidStartIndex(requestInfo),
                  Min(ValidStartIndex(requestInfo) + ChunkSizeOf(requestInfo),
                      Len(videoBuffer))))
\* videoBuffer.slice(validStartIndex, Math.min(validStartIndex + chunkSize, length))
DataToSend(requestInfo) ==
  JsSlice(videoBuffer, ValidStartIndex(requestInfo),
          Min(ValidStartIndex(requestInfo) + ChunkSizeOf(requestInfo),
              Len(videoBuffer)))

\* videoBuffer after the callback: slice() copies, map() builds new objects.
BufferAfterWindow(requestInfo) == videoBuffer

EncodeChunk(packet) ==
  [ id |-> packet.id, data |-> Base64Encode(packet.data),
    timestamp |-> packet.timestamp, size |-> packet.size ]

\* Faulty variant: the index of the last packet sent.
NextIndexOfLast(requestInfo) ==
  Max(ValidStartIndex(requestInfo) + Len(DataToSend(requestInfo)) - 1, 0)
\* validStartIndex + dataToSend.length
NextIndex(requestInfo) ==
  ValidStartIndex(requestInfo) + Len(DataToSend(requestInfo))

VideoData(requestInfo) ==
  IF Len(videoBuffer) = 0
  THEN [ event |-> "video-data", chunks |-> <<>>, nextIndex |-> 0,
         hasMore |-> FALSE, timestamp |-> now ]
  ELSE [ event |-> "video-data",
         chunks |-> [ i \in 1..Len(DataToSend(requestInfo)) |->
                        EncodeChunk(DataToSend(requestInfo)[i]) ],
         nextIndex |-> NextIndex(requestInfo),
         hasMore |-> NextIndex(requestInfo) < Len(videoBuffer),
         timestamp |-> now,
         dataRate |-> currentDataRate ]

RequestVideoDataCallback(c, requestInfo) ==
  /\ ~crashed
  /\ c \in DOMAIN sockets
  /\ IF RateLimited(c, StrictEventLimit)
     THEN Dropped("request-video-data", c, requestInfo, StrictEventLimit)
     ELSE IF ~requestInfo.defined
     THEN Crash("request-video-data", c)
     ELSE /\ socketRateLimits' = RateLimitsAfter(c, StrictEventLimit)
          /\ delivered' = EmitTo(NoMessages, DOMAIN sockets, c, VideoData(requestInfo))
          /\ videoBuffer' = BufferAfterWindow(requestInfo)
          /\ lastEvent' = [op |-> "request-video-data", socket |-> c,
                           data |-> requestInfo, outcome |-> "handled"]
          /\ eventCount' = eventCount + 1
          /\ UNCHANGED << now, crashed, udpOpen, udpCount, arrivals,
                          bytesReceivedLastSecond, lastDataRateUpdate,
                          currentDataRate, connVars, regVars, roleEventsSent,
                          httpVars >>

RequestVideoData(c, requestInfo) ==
  RequestVideoDataCallback(c, requestInfo) /\ UNCHANGED pageVars

(***************************************************************************)
(* A connection paging through the buffer.  pager records, for each        *)
(* connection, the sequence of answered request-video-data events that     *)
(* began with its last request at startIndex 0 and went on from the        *)
(* nextIndex of each answer; a request at any other index ends the record. *)
(***************************************************************************)
\* Arrival numbers of the packets a video-data message hands over.
SeqsSent(requestInfo) ==
  IF Len(videoBuffer) = 0 THEN <<>>
  ELSE [ i \in 1..Len(DataToSend(requestInfo)) |-> DataToSend(requestInfo)[i].seq ]

\* The request goes on from the nextIndex of the last answer.
Continues(c, requestInfo) ==
  /\ MapHas(pager, c)
  /\ pager[c].nextIndex # 0
  /\ requestInfo.startIndex = << pager[c].nextIndex >>

\* chunkSize >= 1 was asked for.
Sized(requestInfo) ==
  requestInfo.chunkSize # <<>> /\ requestInfo.chunkSize[1] >= 1

\* pager after a request of connection c.  requests counts the answers,
\* received lists what they handed over, udpAtStart is the number of
\* datagrams ingested before the first request, polled tells that a request
\* was made after an answer with hasMore = false, sized that every request
\* asked for chunkSize >= 1, dropped that a request made since the first
\* one was dropped by the rate limiter.
PagerAfter(c, requestInfo) ==
  IF RateLimited(c, StrictEventLimit)
  THEN IF MapHas(pager, c)
       THEN MapSet(pager, c, [pager[c] EXCEPT !.dropped = TRUE])
       ELSE pager
  ELSE IF Continues(c, requestInfo)
  THEN MapSet(pager, c,
         [ requests |-> pager[c].requests + 1,
           nextIndex |-> VideoData(requestInfo).nextIndex,
           hasMore |-> VideoData(requestInfo).hasMore,
           received |-> pager[c].received \o SeqsSent(requestInfo),
           udpAtStart |-> pager[c].udpAtStart,
           polled |-> pager[c].polled \/ ~pager[c].hasMore,
           sized |-> pager[c].sized /\ Sized(requestInfo),
           dropped |-> pager[c].dropped ])
  ELSE IF requestInfo.startIndex = <<0>>
  THEN MapSet(pager, c,
         [ requests |-> 1,
           nextIndex |-> VideoData(requestInfo).nextIndex,
           hasMore |-> VideoData(requestInfo).hasMore,
           received |-> SeqsSent(requestInfo),
           udpAtStart |-> udpCount,
           polled |-> FALSE,
           sized |-> Sized(requestInfo),
           dropped |-> FALSE ])
  ELSE MapDelete(pager, c)

\* socket.on('request-video-data') with the record of the sequence.
PagingRequest(c, requestInfo) ==
  /\ requestInfo.defined
  /\ RequestVideoDataCallback(c, requestInfo)
  /\ pager' = PagerAfter(c, requestInfo)
  /\ UNCHANGED << streamPageVars, notices >>

(***************************************************************************)
(* The registry callbacks.  data is the event payload: undefined, or an    *)
(* object whose streamId property reads as a member of StreamKeys.         *)
(***************************************************************************)
Handled(op, c, data) ==
  /\ socketRateLimits' = RateLimitsAfter(c, StrictEventLimit)
  /\ lastEvent' = [op |-> op, socket |-> c, data |-> data, outcome |-> "handled"]
  /\ eventCount' = eventCount + 1
  /\ roleEventsSent' = RoleEventsAfter(op, c)
  /\ UNCHANGED << now, crashed, udpVars, connVars, httpVars >>

StreamAvailable(streamId) ==
  [event |-> "stream-available", streamId |-> streamId, timestamp |-> now]
StreamEnded(streamId) ==
  [event |-> "stream-ended", streamId |-> streamId, timestamp |-> now]
StreamEndedOnDisconnect(streamId) ==
  [event |-> "stream-ended", streamId |-> streamId, timestamp |-> now,
   reason |-> "broadcaster-disconnected"]
StreamUnavailable(streamId) ==
  [event |-> "stream-unavailable", streamId |-> streamId, timestamp |-> now]
ViewerConnected(viewerId) ==
  [event |-> "broadcaster-viewer-connected", viewerId |-> viewerId, timestamp |-> now]
ViewerDisconnected(viewerId) ==
  [event |-> "broadcaster-viewer-disconnected", viewerId |-> viewerId,
   timestamp |-> now]
ViewerDisconnectedOnDisconnect(viewerId) ==
  [event |-> "broadcaster-viewer-disconnected", viewerId |-> viewerId,
   timestamp |-> now, reason |-> "viewer-disconnected"]

\* Faulty variant: an existing registration is kept (first writer wins).
BroadcastersKeepFirst(c, streamId) ==
  IF MapHas(broadcasters, streamId) THEN broadcasters
  ELSE MapSet(broadcasters, streamId, c)
\* broadcasters.set(streamId, socket.id)
BroadcastersAfterRegister(c, streamId) == MapSet(broadcasters, streamId, c)

\* Faulty variant: the follower set is emptied but its key stays.
ViewersCleared(streamId) == MapSet(viewers, streamId, {})
\* viewers.delete(streamId)
ViewersAfterStreamEnd(streamId) == MapDelete(viewers, streamId)

\* Faulty variant: a new Set replaces the follower set on every registration.
ViewersResetOnRegister(streamId) == MapSet(viewers, streamId, {})
\* if (!viewers.has(streamId)) viewers.set(streamId, new Set())
ViewersAfterRegister(streamId) ==
  IF MapHas(viewers, streamId) THEN viewers ELSE MapSet(viewers, streamId, {})

\* socket.on('register-broadcaster')
RegisterBroadcasterCallback(c, data) ==
  /\ ~crashed
  /\ c \in DOMAIN sockets
  /\ IF RateLimited(c, StrictEventLimit)
     THEN Dropped("register-broadcaster", c, data, StrictEventLimit)
     ELSE IF ~data.defined
     THEN Crash("register-broadcaster", c)
     ELSE /\ broadcasters' = BroadcastersAfterRegister(c, data.streamId)
          /\ viewers' = ViewersAfterRegister(data.streamId)
          /\ socketRoles' = MapSet(socketRoles, c,
                                   [role |-> "broadcaster", streamId |-> data.streamId])
          /\ delivered' = BroadcastEmit(NoMessages, DOMAIN sockets, c,
                                        StreamAvailable(data.streamId))
          /\ Handled("register-broadcaster", c, data)

RegisterBroadcaster(c, data) == RegisterBroadcasterCallback(c, data) /\ UNCHANGED pageVars

\* Faulty variant: any connection may end a registered stream.
IsRegisteredStream(c, streamId) == MapHas(broadcasters, streamId)
\* The ownership test of unregister-broadcaster and of disconnect.
IsCurrentBroadcaster(c, streamId) ==
  MapHas(broadcasters, streamId) /\ broadcasters[streamId] = c

\* socket.on('unregister-broadcaster')
UnregisterBroadcasterCallback(c, data) ==
  /\ ~crashed
  /\ c \in DOMAIN sockets
  /\ IF RateLimited(c, StrictEventLimit)
     THEN Dropped("unregister-broadcaster", c, data, StrictEventLimit)
     ELSE IF ~data.defined
     THEN Crash("unregister-broadcaster", c)
     ELSE /\ IF IsCurrentBroadcaster(c, data.streamId)
             THEN /\ broadcasters' = MapDelete(broadcasters, data.streamId)
                  /\ IF MapHas(viewers, data.streamId)
                     THEN /\ delivered' = EmitToEach(NoMessages, DOMAIN sockets,
                                                     viewers[data.streamId],
                                                     StreamEnded(data.streamId))
                          /\ viewers' = ViewersAfterStreamEnd(data.streamId)
                     ELSE /\ delivered' = NoMessages
                          /\ viewers' = viewers
             ELSE /\ delivered' = NoMessages
                  /\ UNCHANGED << broadcasters, viewers >>
          /\ socketRoles' = MapDelete(socketRoles, c)
          /\ Handled("unregister-broadcaster", c, data)

UnregisterBroadcaster(c, data) == UnregisterBroadcasterCallback(c, data) /\ UNCHANGED pageVars

\* Faulty variant: io.emit instead of socket.emit.
StreamUnavailableToAll(c, streamId) ==
  IoEmit(NoMessages, DOMAIN sockets, StreamUnavailable(streamId))
\* socket.emit('stream-unavailable', { streamId, timestamp })
StreamUnavailableReply(c, streamId) ==
  EmitTo(NoMessages, DOMAIN sockets, c, StreamUnavailable(streamId))

\* if (!viewers.has(streamId)) viewers.set(streamId, new Set());
\* viewers.get(streamId).add(socket.id)
ViewersAfterRegisterViewer(c, streamId) ==
  MapSet(viewers, streamId,
         (IF MapHas(viewers, streamId) THEN viewers[streamId] ELSE {}) \cup {c})

\* socket.on('register-viewer')
RegisterViewerCallback(c, data) ==
  /\ ~crashed
  /\ c \in DOMAIN sockets
  /\ IF RateLimited(c, StrictEventLimit)
     THEN Dropped("register-viewer", c, data, StrictEventLimit)
     ELSE IF ~data.defined
     THEN Crash("register-viewer", c)
     ELSE /\ IF ~MapHas(broadcasters, data.streamId)
             THEN /\ delivered' = StreamUnavailableReply(c, data.streamId)
                  /\ UNCHANGED << viewers, socketRoles >>
             ELSE /\ viewers' = ViewersAfterRegisterViewer(c, data.streamId)
                  /\ socketRoles' = MapSet(socketRoles, c,
                        [role |-> "viewer", streamId |-> data.streamId])
                  /\ delivered' = EmitTo(NoMessages, DOMAIN sockets,
                                         broadcasters[data.streamId],
                                         ViewerConnected(c))
          /\ UNCHANGED broadcasters
          /\ Handled("register-viewer", c, data)

RegisterViewer(c, data) == RegisterViewerCallback(c, data) /\ UNCHANGED pageVars

\* socket.on('unregister-viewer')
UnregisterViewerCallback(c, data) ==
  /\ ~crashed
  /\ c \in DOMAIN sockets
  /\ IF RateLimited(c, StrictEventLimit)
     THEN Dropped("unregister-viewer", c, data, StrictEventLimit)
     ELSE IF ~data.defined
     THEN Crash("unregister-viewer", c)
     ELSE /\ IF MapHas(viewers, data.streamId)
             THEN /\ viewers' = MapSet(viewers, data.streamId,
                                       viewers[data.streamId] \ {c})
                  /\ delivered' =
                       IF MapHas(broadcasters, data.streamId)
                       THEN EmitTo(NoMessages, DOMAIN sockets,
                                   broadcasters[data.streamId], ViewerDisconnected(c))
                       ELSE NoMessages
             ELSE /\ viewers' = viewers
                  /\ delivered' = NoMessages
          /\ socketRoles' = MapDelete(socketRoles, c)
          /\ UNCHANGED broadcasters
          /\ Handled("unregister-viewer", c, data)

UnregisterViewer(c, data) == UnregisterViewerCallback(c, data) /\ UNCHANGED pageVars

(***************************************************************************)
(* The relays.  data is the event payload: undefined, or an object with a  *)
(* type and, for the directed relays, a target id.                         *)
(***************************************************************************)
\* A relay callback past its rate gate.
Relayed(op, c, data) ==
  /\ socketRateLimits' = RateLimitsAfter(c, SignalEventLimit)
  /\ lastEvent' = [op |-> op, socket |-> c, data |-> data, outcome |-> "handled"]
  /\ eventCount' = eventCount + 1
  /\ UNCHANGED << now, crashed, udpVars, connVars, regVars, roleEventsSent,
                  httpVars >>

\* What the payload carries under the name of the field the server adds:
\* <<>> when it has no such property (spreading undefined adds none).
Claimed(data) ==
  IF data.defined /\ "claimed" \in DOMAIN data THEN data.claimed ELSE <<>>

\* The properties of an object literal are written in order; a name written
\* twice keeps the last value.
LastWritten(writes) == writes[Len(writes)]

\* Faulty variant: { senderId: socket.id, ...data }.
SenderFieldSpreadLast(data, c) == LastWritten(<<c>> \o Claimed(data))
\* { ...data, senderId: socket.id }
SenderField(data, c) == LastWritten(Claimed(data) \o <<c>>)

\* { ...data, senderId: socket.id, timestamp: Date.now() }
WebrtcSignalMessage(c, data) ==
  [ event |-> "webrtc-signal", data |-> data, senderId |-> SenderField(data, c),
    timestamp |-> now ]

\* Faulty variant: io.emit instead of socket.broadcast.emit.
WebrtcSignalToAll(c, data) ==
  IoEmit(NoMessages, DOMAIN sockets, WebrtcSignalMessage(c, data))
\* socket.broadcast.emit('webrtc-signal', ...)
WebrtcSignalDelivery(c, data) ==
  BroadcastEmit(NoMessages, DOMAIN sockets, c, WebrtcSignalMessage(c, data))

\* socket.on('webrtc-signal')
WebrtcSignal(c, data) ==
  /\ ~crashed
  /\ UNCHANGED pageVars
  /\ c \in DOMAIN sockets
  /\ IF RateLimited(c, SignalEventLimit)
     THEN Dropped("webrtc-signal", c, data, SignalEventLimit)
     ELSE /\ delivered' = WebrtcSignalDelivery(c, data)
          /\ Relayed("webrtc-signal", c, data)

\* { ...data, broadcasterId: socket.id, timestamp: Date.now() }
ViewerSignalMessage(c, data) ==
  [ event |-> "viewer-signal", data |-> data,
    broadcasterId |-> SenderField(data, c), timestamp |-> now ]
\* { ...data, viewerId: socket.id, timestamp: Date.now() }
BroadcasterSignalMessage(c, data) ==
  [ event |-> "broadcaster-signal", data |-> data,
    viewerId |-> SenderField(data, c), timestamp |-> now ]

\* Faulty variant: a message for an absent target goes back to the sender.
DirectedDeliveryOrBounce(c, target, m) ==
  IF target \in DOMAIN sockets
  THEN EmitTo(NoMessages, DOMAIN sockets, target, m)
  ELSE EmitTo(NoMessages, DOMAIN sockets, c, m)
\* const s = io.sockets.sockets.get(target); if (s) s.emit(...)
DirectedDelivery(c, target, m) == EmitTo(NoMessages, DOMAIN sockets, target, m)

\* socket.on('broadcaster-signal'): the callback.
BroadcasterSignalCallback(c, data) ==
  /\ ~crashed
  /\ c \in DOMAIN sockets
  /\ IF RateLimited(c, SignalEventLimit)
     THEN Dropped("broadcaster-signal", c, data, SignalEventLimit)
     ELSE IF ~data.defined
     THEN Crash("broadcaster-signal", c)
     ELSE /\ delivered' = DirectedDelivery(c, data.target, ViewerSignalMessage(c, data))
          /\ Relayed("broadcaster-signal", c, data)

\* A broadcaster-signal event sent by any client but the stream page.
BroadcasterSignal(c, data) ==
  /\ BroadcasterSignalCallback(c, data)
  /\ UNCHANGED pageVars

\* socket.on('viewer-signal')
ViewerSignal(c, data) ==
  /\ ~crashed
  /\ UNCHANGED pageVars
  /\ c \in DOMAIN sockets
  /\ IF RateLimited(c, SignalEventLimit)
     THEN Dropped("viewer-signal", c, data, SignalEventLimit)
     ELSE IF ~data.defined
     THEN Crash("viewer-signal", c)
     ELSE /\ delivered' = DirectedDelivery(c, data.target,
                                           BroadcasterSignalMessage(c, data))
          /\ Relayed("viewer-signal", c, data)

(***************************************************************************)
(* The stream page (src/public/js/stream.js).  Its socket reconnects after *)
(* a disconnect, each time as a new connection of the server.  A value     *)
(* held by the page is tagged: an object with its properties, or a         *)
(* connection id.                                                          *)
(***************************************************************************)
\* generateStreamId(): 'stream-' and nine characters drawn at random; the
\* ids the model draws from.
GeneratedStreamIds == {"s1", "s2"}
\* A key under which io.sockets.sockets holds no connection.
NotAnId == 0

\* socket.on('broadcaster-viewer-connected', (viewerId) => ...): the
\* parameter is bound to the first argument of the event, which is the
\* payload object { viewerId, timestamp } the server sent.
ListenerViewerId(m) ==
  [ object |-> TRUE,
    payload |-> [viewerId |-> m.viewerId, timestamp |-> m.timestamp] ]

\* peerConnections[value]: the property key of a value is String(value).
PropertyKey(v) == IF v.object THEN "[object Object]" ELSE ToString(v.id)

\* io.sockets.sockets.get(value) for a value received from the page: an
\* object is the key of no connection.
SocketKey(v) == IF v.object THEN NotAnId ELSE v.id

\* { type: ..., viewerId: viewerId, ... } as the server reads it.
OfferSignal(v) == [defined |-> TRUE, target |-> SocketKey(v), type |-> "offer"]
IceCandidateSignal(v) ==
  [defined |-> TRUE, target |-> SocketKey(v), type |-> "ice-candidate"]

\* { streamId } of the page's register-broadcaster and unregister-broadcaster:
\* the value the page's streamId holds when the event is emitted.
PageStream == [defined |-> TRUE, streamId |-> pageStreamId]
\* { streamId } of a follower's register-viewer: any value the page can hold.
FollowerPayloads ==
  { [defined |-> TRUE, streamId |-> k] : k \in GeneratedStreamIds \cup {""} }

\* The state the page's own steps leave alone.
pageRest == << now, crashed, udpVars, connVars, eventCount, regVars,
               socketRateLimits, roleEventsSent, httpVars, pager, notices,
               delivered >>

\* The messages of one server callback that the page has a listener for:
\* they reach the page in the order sent.
IsPageNotice(m) ==
  m.event \in {"broadcaster-viewer-connected", "broadcaster-viewer-disconnected"}
\* What is sent to the page's connection while the page has none is lost.
PageInboxAfter(msgs) ==
  IF pageState = "closed" THEN pageInbox
  ELSE pageInbox \o SelectSeq(msgs[pageSocket], IsPageNotice)

\* pc.close(): its createOffer() chain, if still pending, can only reject,
\* and its icecandidate listener fires no more.
OffersAfterClose(pcs) ==
  [ i \in DOMAIN pendingOffers |->
      IF pendingOffers[i].pc \in pcs
      THEN [pendingOffers[i] EXCEPT !.closed = TRUE] ELSE pendingOffers[i] ]
GatheringAfterClose(pcs) == { g \in gathering : g.pc \notin pcs }

RemoveAt(seq, i) == SubSeq(seq, 1, i - 1) \o SubSeq(seq, i + 1, Len(seq))

\* startStreaming() up to its await: a click on Start while isStreaming is
\* false calls getUserMedia().  The button is disabled only after the call
\* has resolved, so a second click finds isStreaming still false.
StartStreaming ==
  /\ ~isStreaming
  /\ mediaRequests < MaxMediaRequests
  /\ mediaRequests' = mediaRequests + 1
  /\ lastEvent' = [op |-> "page-start-click", socket |-> pageSocket]
  /\ UNCHANGED << pageStreamId, pageSocket, pageState, peerConnections, pendingOffers, gathering, pcCount,
                  isStreaming, pageInbox, uplink, pageRest >>

\* startStreaming() after its await, getUserMedia() having resolved:
\* register-broadcaster is emitted and isStreaming set, whatever isStreaming
\* has become since the click.
MediaResolved ==
  /\ mediaRequests > 0
  /\ Len(uplink) < MaxUplink
  /\ mediaRequests' = mediaRequests - 1
  /\ isStreaming' = TRUE
  /\ uplink' = Append(uplink, [event |-> "register-broadcaster", data |-> PageStream])
  /\ lastEvent' = [op |-> "page-start-streaming", socket |-> pageSocket]
  /\ UNCHANGED << pageStreamId, pageSocket, pageState, peerConnections, pendingOffers, gathering, pcCount, pageInbox,
                  pageRest >>

\* getUserMedia() has rejected: the catch block alerts, nothing is emitted.
MediaRejected ==
  /\ mediaRequests > 0
  /\ mediaRequests' = mediaRequests - 1
  /\ lastEvent' = [op |-> "page-start-rejected", socket |-> pageSocket]
  /\ UNCHANGED << pageStreamId, pageSocket, pageState, peerConnections, pendingOffers, gathering, pcCount,
                  isStreaming, pageInbox, uplink, pageRest >>

\* stopStreaming(): every connection of peerConnections is closed and
\* deleted, then unregister-broadcaster is emitted.
StopStreaming ==
  /\ isStreaming
  /\ Len(uplink) < MaxUplink
  /\ LET pcs == { peerConnections[k].pc : k \in DOMAIN peerConnections }
     IN /\ pendingOffers' = OffersAfterClose(pcs)
        /\ gathering' = GatheringAfterClose(pcs)
  /\ peerConnections' = EmptyMap
  /\ isStreaming' = FALSE
  /\ uplink' = Append(uplink, [event |-> "unregister-broadcaster", data |-> PageStream])
  /\ lastEvent' = [op |-> "page-stop-streaming", socket |-> pageSocket]
  /\ UNCHANGED << pageStreamId, pageSocket, pageState, pcCount, mediaRequests, pageInbox, pageRest >>

\* The listener and the synchronous part of handleViewerConnected: a new
\* RTCPeerConnection is stored under the property key of viewerId and
\* createOffer() is started.
BroadcasterViewerConnected ==
  /\ pageInbox # <<>>
  /\ Head(pageInbox).event = "broadcaster-viewer-connected"
  /\ LET m == Head(pageInbox)
         viewerId == ListenerViewerId(m)
     IN /\ peerConnections' = MapSet(peerConnections, PropertyKey(viewerId),
                                     [pc |-> pcCount + 1, viewerId |-> viewerId])
        /\ pendingOffers' = Append(pendingOffers,
                                   [ pc |-> pcCount + 1, viewerId |-> viewerId,
                                     closed |-> FALSE ])
        /\ lastEvent' = [ op |-> "page-viewer-connected",
                          socket |-> pageSocket, message |-> m ]
  /\ pcCount' = pcCount + 1
  /\ pageInbox' = Tail(pageInbox)
  /\ UNCHANGED << pageStreamId, pageSocket, pageState, gathering, isStreaming, mediaRequests, uplink, pageRest >>

\* socket.on('broadcaster-viewer-disconnected', (viewerId) => ...) and
\* handleViewerDisconnected: the connection stored under the property key of
\* viewerId, if any, is closed and deleted.
BroadcasterViewerDisconnected ==
  /\ pageInbox # <<>>
  /\ Head(pageInbox).event = "broadcaster-viewer-disconnected"
  /\ LET m == Head(pageInbox)
         key == PropertyKey(ListenerViewerId(m))
     IN /\ IF MapHas(peerConnections, key)
           THEN /\ pendingOffers' = OffersAfterClose({peerConnections[key].pc})
                /\ gathering' = GatheringAfterClose({peerConnections[key].pc})
                /\ peerConnections' = MapDelete(peerConnections, key)
           ELSE UNCHANGED << peerConnections, pendingOffers, gathering >>
        /\ lastEvent' = [ op |-> "page-viewer-disconnected",
                          socket |-> pageSocket, message |-> m ]
  /\ pageInbox' = Tail(pageInbox)
  /\ UNCHANGED << pageStreamId, pageSocket, pageState, pcCount, isStreaming, mediaRequests, uplink, pageRest >>

\* createOffer() and setLocalDescription() of one open connection have
\* resolved, in whatever order the chains settle: the page emits
\* broadcaster-signal with the offer.
PageOffer(i) ==
  /\ i \in DOMAIN pendingOffers
  /\ ~pendingOffers[i].closed
  /\ Len(uplink) < MaxUplink
  /\ uplink' = Append(uplink, [ event |-> "broadcaster-signal",
                                data |-> OfferSignal(pendingOffers[i].viewerId),
                                viewerId |-> pendingOffers[i].viewerId ])
  /\ gathering' = gathering \cup { [ pc |-> pendingOffers[i].pc,
                                     viewerId |-> pendingOffers[i].viewerId ] }
  /\ pendingOffers' = RemoveAt(pendingOffers, i)
  /\ lastEvent' = [ op |-> "page-offer", socket |-> pageSocket,
                    pc |-> pendingOffers[i].pc ]
  /\ UNCHANGED << pageStreamId, pageSocket, pageState, peerConnections, pcCount, isStreaming, mediaRequests,
                  pageInbox, pageRest >>

\* .catch(err => console.error(...)): the chain of a connection, open or
\* closed, has rejected; nothing is emitted.
PageOfferRejected(i) ==
  /\ i \in DOMAIN pendingOffers
  /\ pendingOffers' = RemoveAt(pendingOffers, i)
  /\ lastEvent' = [ op |-> "page-offer-rejected", socket |-> pageSocket,
                    pc |-> pendingOffers[i].pc ]
  /\ UNCHANGED << pageStreamId, pageSocket, pageState, peerConnections, gathering, pcCount, isStreaming,
                  mediaRequests, pageInbox, uplink, pageRest >>

\* The icecandidate listener of an open connection, event.candidate set.
IceCandidate(g) ==
  /\ g \in gathering
  /\ Len(uplink) < MaxUplink
  /\ uplink' = Append(uplink, [ event |-> "broadcaster-signal",
                                data |-> IceCandidateSignal(g.viewerId),
                                viewerId |-> g.viewerId ])
  /\ lastEvent' = [ op |-> "page-ice-candidate", socket |-> pageSocket,
                    pc |-> g.pc ]
  /\ UNCHANGED << pageStreamId, pageSocket, pageState, peerConnections, pendingOffers, gathering, pcCount,
                  isStreaming, mediaRequests, pageInbox, pageRest >>

\* A callback of the server, seen from the page: what it sends to the page
\* joins the page's inbox.
ServerTurn ==
  /\ pageInbox' = PageInboxAfter(delivered')
  /\ UNCHANGED << peerConnections, pendingOffers, gathering, pcCount,
                  isStreaming, pageStreamId, pageSocket, pageState, mediaRequests,
                  uplink, pager, notices >>

\* const socket = io(), and the socket's reconnection after a disconnect: the
\* page's connection attempt reaches the server as a new connection.
PageConnection(addr) ==
  /\ pageState = "closed"
  /\ ConnectCallback(addr)
  /\ pageSocket' = nextSocket'
  /\ pageState' = "opening"
  /\ UNCHANGED << peerConnections, pendingOffers, gathering, pcCount,
                  isStreaming, pageStreamId, mediaRequests, pageInbox, uplink,
                  pager, notices >>

\* socket.on('connect'): streamId = generateStreamId(), at the first
\* connection and at every one after it.
PageConnect(id) ==
  /\ pageState = "opening"
  /\ pageState' = "open"
  /\ pageStreamId' = id
  /\ lastEvent' = [op |-> "page-connect", socket |-> pageSocket, streamId |-> id]
  /\ UNCHANGED << peerConnections, pendingOffers, gathering, pcCount,
                  isStreaming, pageSocket, mediaRequests, pageInbox, uplink,
                  pageRest >>

\* socket.on('disconnect'): the listener changes the status line only.
\* What was on its way to the page or to the server over the connection
\* is lost; events emitted from now on wait for the next connection.
PageDisconnect ==
  /\ pageState = "open"
  /\ pageState' = "closed"
  /\ pageInbox' = <<>>
  /\ uplink' = <<>>
  /\ lastEvent' = [op |-> "page-disconnect", socket |-> pageSocket]
  /\ UNCHANGED << peerConnections, pendingOffers, gathering, pcCount,
                  isStreaming, pageStreamId, pageSocket, mediaRequests, pageRest >>

\* The oldest event emitted by the page reaches the server over the page's
\* connection, once that is open.
PageUplink ==
  /\ uplink # <<>>
  /\ pageState = "open"
  /\ LET e == Head(uplink)
     IN IF e.event = "broadcaster-signal"
        THEN BroadcasterSignalCallback(pageSocket, e.data)
        ELSE IF e.event = "register-broadcaster"
        THEN RegisterBroadcasterCallback(pageSocket, e.data)
        ELSE UnregisterBroadcasterCallback(pageSocket, e.data)
  /\ uplink' = Tail(uplink)
  /\ pageInbox' = PageInboxAfter(delivered')
  /\ UNCHANGED << peerConnections, pendingOffers, gathering, pcCount,
                  isStreaming, pageStreamId, pageSocket, pageState, mediaRequests,
                  pager, notices >>

(***************************************************************************)
(* socket.on('disconnect').  The socket has left io.sockets.sockets when   *)
(* the callback runs.                                                      *)
(***************************************************************************)
\* Faulty variant: the role entry survives the cleanup.
RolesKeptAfterDisconnect(c) == socketRoles
\* socketRoles.delete(socket.id)
RolesAfterDisconnect(c) == MapDelete(socketRoles, c)

\* The body of the callback for socket c; open is io.sockets.sockets as the
\* callback sees it.
DisconnectCleanup(c, open) ==
  /\ socketRateLimits' = MapDelete(socketRateLimits, c)
  /\ IF MapHas(socketRoles, c)
     THEN LET role == socketRoles[c].role
              streamId == socketRoles[c].streamId
          IN /\ IF role = "broadcaster"
                THEN IF IsCurrentBroadcaster(c, streamId)
                     THEN /\ broadcasters' = MapDelete(broadcasters, streamId)
                          /\ IF MapHas(viewers, streamId)
                             THEN /\ delivered' = EmitToEach(NoMessages, open,
                                         viewers[streamId],
                                         StreamEndedOnDisconnect(streamId))
                                  /\ viewers' = ViewersAfterStreamEnd(streamId)
                             ELSE /\ delivered' = NoMessages
                                  /\ viewers' = viewers
                     ELSE /\ delivered' = NoMessages
                          /\ UNCHANGED << broadcasters, viewers >>
                ELSE /\ IF MapHas(viewers, streamId)
                        THEN /\ viewers' = MapSet(viewers, streamId,
                                                  viewers[streamId] \ {c})
                             /\ delivered' =
                                  IF MapHas(broadcasters, streamId)
                                  THEN EmitTo(NoMessages, open, broadcasters[streamId],
                                              ViewerDisconnectedOnDisconnect(c))
                                  ELSE NoMessages
                        ELSE /\ viewers' = viewers
                             /\ delivered' = NoMessages
                     /\ UNCHANGED broadcasters
             /\ socketRoles' = RolesAfterDisconnect(c)
     ELSE /\ delivered' = NoMessages
          /\ UNCHANGED regVars

\* The role and the stream the callback finds for socket c (recorded in
\* lastEvent).
RoleFound(c) == IF MapHas(socketRoles, c) THEN socketRoles[c].role ELSE "none"
StreamFound(c) == IF MapHas(socketRoles, c) THEN socketRoles[c].streamId ELSE "none"

DisconnectCallback(c) ==
  /\ ~crashed
  /\ c \in DOMAIN sockets
  /\ sockets' = MapDelete(sockets, c)
  /\ DisconnectCleanup(c, DOMAIN sockets \ {c})
  /\ lastEvent' = [op |-> "disconnect", socket |-> c, role |-> RoleFound(c),
                   streamId |-> StreamFound(c)]
  /\ roleEventsSent' = MapDelete(roleEventsSent, c)
  /\ UNCHANGED << now, crashed, udpVars, nextSocket, eventCount, httpVars >>

Disconnect(c) == DisconnectCallback(c) /\ UNCHANGED pageVars

\* The callback run a second time, straight after its first run, for the
\* same (closed) socket.
DisconnectAgain(c) ==
  /\ ~crashed
  /\ UNCHANGED pageVars
  /\ lastEvent.op = "disconnect"
  /\ lastEvent.socket = c
  /\ DisconnectCleanup(c, DOMAIN sockets)
  /\ lastEvent' = [op |-> "disconnect-again", socket |-> c, first |-> lastEvent.role]
  /\ UNCHANGED << now, crashed, udpVars, connVars, eventCount, roleEventsSent,
                  httpVars >>

(***************************************************************************)
(* Inputs and specifications.                                              *)
(***************************************************************************)
NoPayload == [defined |-> FALSE]
StreamPayloads == { [defined |-> TRUE, streamId |-> k] : k \in StreamKeys }
RegistryPayloads == StreamPayloads \cup {NoPayload}

\* startIndex and chunkSize as sent by a client: absent or an integer.
StartIndexes == { <<>>, <<-1>>, <<1>>, <<7>> }
ChunkSizes == { <<>>, <<-1>>, <<0>>, <<1>>, <<25>> }
RequestPayloads ==
  { [defined |-> TRUE, startIndex |-> i, chunkSize |-> n] :
      i \in StartIndexes, n \in ChunkSizes } \cup {NoPayload}

\* Target ids of the directed relays: 0 is an id no connection has.
SignalTargets == 0..MaxSessionSockets
SignalTypes == {"offer"}
\* Ids a payload may carry under the name of the server-added sender field.
ClaimedSenders == 1..MaxSessionSockets
BroadcastPayloads ==
  { [defined |-> TRUE, type |-> t] : t \in SignalTypes }
    \cup { [defined |-> TRUE, type |-> t, claimed |-> <<k>>] :
             t \in SignalTypes, k \in ClaimedSenders }
    \cup {NoPayload}
DirectedPayloads ==
  { [defined |-> TRUE, target |-> id, type |-> t] :
      id \in SignalTargets, t \in SignalTypes }
    \cup { [defined |-> TRUE, target |-> id, type |-> t, claimed |-> <<k>>] :
             id \in SignalTargets, t \in SignalTypes, k \in ClaimedSenders }
    \cup {NoPayload}

\* Ingestion alone: datagrams, socket errors and the clock, no client.
NextIngest ==
  \/ \E msg \in Datagrams, sender \in UdpSenders : UdpMessage(msg, sender)
  \/ UdpError
  \/ UdpBindError
  \/ \E d \in RateTickSteps : Tick(d)

SpecIngest == Init /\ [][NextIngest]_vars

\* Ingestion and the data window requested by clients.
WindowBudget ==
  /\ nextSocket <= MaxSessionSockets
  /\ udpCount + nextSocket + eventCount <= MaxWindowSteps

NextBuffer ==
  \/ \E msg \in Datagrams, sender \in UdpSenders :
       UdpMessage(msg, sender) /\ WindowBudget'
  \/ \E addr \in Addresses : Connect(addr) /\ WindowBudget'
  \/ \E c \in AllIds : Disconnect(c)
  \/ \E c \in AllIds, requestInfo \in RequestPayloads :
       RequestVideoData(c, requestInfo) /\ WindowBudget'
  \/ \E d \in TickSteps : Tick(d)

SpecBuffer == Init /\ [][NextBuffer]_vars

\* The broadcaster / viewer registry.  Its callbacks read the clock only to
\* stamp messages and in the rate gate, so the clock stands still here.
SessionBudget ==
  /\ nextSocket <= MaxSessionSockets
  /\ nextSocket + eventCount <= MaxSessionSteps

NextSession ==
  \/ \E addr \in Addresses : Connect(addr) /\ SessionBudget'
  \/ \E c \in AllIds : Disconnect(c)
  \/ \E c \in AllIds, data \in RegistryPayloads :
       RegisterBroadcaster(c, data) /\ SessionBudget'
  \/ \E c \in AllIds, data \in RegistryPayloads :
       UnregisterBroadcaster(c, data) /\ SessionBudget'
  \/ \E c \in AllIds, data \in RegistryPayloads :
       RegisterViewer(c, data) /\ SessionBudget'
  \/ \E c \in AllIds, data \in RegistryPayloads :
       UnregisterViewer(c, data) /\ SessionBudget'

SpecRegistry == Init /\ [][NextSession]_vars

\* The registry again, over shorter runs: sources, followers, takeovers and
\* departures.
FollowBudget ==
  /\ nextSocket <= MaxSessionSockets
  /\ nextSocket + eventCount <= MaxFollowSteps

NextFollow ==
  \/ \E addr \in Addresses : Connect(addr) /\ FollowBudget'
  \/ \E c \in AllIds : Disconnect(c)
  \/ \E c \in AllIds, data \in RegistryPayloads :
       RegisterBroadcaster(c, data) /\ FollowBudget'
  \/ \E c \in AllIds, data \in RegistryPayloads :
       UnregisterBroadcaster(c, data) /\ FollowBudget'
  \/ \E c \in AllIds, data \in RegistryPayloads :
       RegisterViewer(c, data) /\ FollowBudget'
  \/ \E c \in AllIds, data \in RegistryPayloads :
       UnregisterViewer(c, data) /\ FollowBudget'

SpecFollow == Init /\ [][NextFollow]_vars

\* The registry with the record of what each source has been told about its
\* followers: a broadcaster-viewer-connected message naming f opens the pair
\* <<source, f>>, a broadcaster-viewer-disconnected message closes it.
NoticesAfter(msgs) ==
  (notices
     \cup { p \in AllIds \X AllIds :
              \E i \in DOMAIN msgs[p[1]] :
                /\ msgs[p[1]][i].event = "broadcaster-viewer-connected"
                /\ msgs[p[1]][i].viewerId = p[2] })
    \ { p \in AllIds \X AllIds :
          \E i \in DOMAIN msgs[p[1]] :
            /\ msgs[p[1]][i].event = "broadcaster-viewer-disconnected"
            /\ msgs[p[1]][i].viewerId = p[2] }

Noticed ==
  /\ notices' = IF crashed' THEN {} ELSE NoticesAfter(delivered')
  /\ UNCHANGED clientVars

NoticeBudget ==
  /\ nextSocket <= MaxSessionSockets
  /\ nextSocket + eventCount <= MaxNoticeSteps

NextNotice ==
  \/ \E addr \in Addresses : ConnectCallback(addr) /\ Noticed /\ NoticeBudget'
  \/ \E c \in AllIds : DisconnectCallback(c) /\ Noticed
  \/ \E c \in AllIds, data \in RegistryPayloads :
       RegisterBroadcasterCallback(c, data) /\ Noticed /\ NoticeBudget'
  \/ \E c \in AllIds, data \in RegistryPayloads :
       UnregisterBroadcasterCallback(c, data) /\ Noticed /\ NoticeBudget'
  \/ \E c \in AllIds, data \in RegistryPayloads :
       RegisterViewerCallback(c, data) /\ Noticed /\ NoticeBudget'
  \/ \E c \in AllIds, data \in RegistryPayloads :
       UnregisterViewerCallback(c, data) /\ Noticed /\ NoticeBudget'

SpecNotice == Init /\ [][NextNotice]_vars

\* The relays: webrtc-signal, broadcaster-signal and viewer-signal.
RelayBudget ==
  /\ nextSocket <= MaxSessionSockets
  /\ nextSocket + eventCount <= MaxRelaySteps

NextRelay ==
  \/ \E addr \in Addresses : Connect(addr) /\ RelayBudget'
  \/ \E c \in AllIds : Disconnect(c)
  \/ \E c \in AllIds, data \in BroadcastPayloads :
       WebrtcSignal(c, data) /\ RelayBudget'
  \/ \E c \in AllIds, data \in DirectedPayloads :
       BroadcasterSignal(c, data) /\ RelayBudget'
  \/ \E c \in AllIds, data \in DirectedPayloads :
       ViewerSignal(c, data) /\ RelayBudget'

SpecRelay == Init /\ [][NextRelay]_vars

\* Connections and disconnections alone, up to MaxSockets connections; the
\* first connection may come from a second address.
NextCap ==
  \/ \E addr \in CapAddresses :
       Connect(addr) /\ (addr \in Addresses \/ nextSocket = 0)
  \/ \E c \in AllIds : Disconnect(c)

SpecCap == Init /\ [][NextCap]_vars

\* The rate gates: every socket event with one well-formed payload each,
\* HTTP requests and the clock.
GateStream == [defined |-> TRUE, streamId |-> "s1"]
GateRequest == [defined |-> TRUE, startIndex |-> <<>>, chunkSize |-> <<>>]
GateSignal == [defined |-> TRUE, type |-> "offer"]
GateDirected == [defined |-> TRUE, target |-> 1, type |-> "offer"]

\* A connection counts for two steps.
GateBudget ==
  /\ nextSocket <= MaxSessionSockets
  /\ 2 * nextSocket + eventCount + httpCount <= MaxGateSteps

NextGate ==
  \/ \E addr \in Addresses : Connect(addr) /\ GateBudget'
  \/ \E d \in TickSteps : Tick(d)
  \/ \E ip \in HttpClients : HttpRequest(ip) /\ GateBudget'
  \/ \E c \in AllIds : RequestVideoData(c, GateRequest) /\ GateBudget'
  \/ \E c \in AllIds : WebrtcSignal(c, GateSignal) /\ GateBudget'
  \/ \E c \in AllIds : RegisterBroadcaster(c, GateStream) /\ GateBudget'
  \/ \E c \in AllIds : UnregisterBroadcaster(c, GateStream) /\ GateBudget'
  \/ \E c \in AllIds : RegisterViewer(c, GateStream) /\ GateBudget'
  \/ \E c \in AllIds : UnregisterViewer(c, GateStream) /\ GateBudget'
  \/ \E c \in AllIds : BroadcasterSignal(c, GateDirected) /\ GateBudget'
  \/ \E c \in AllIds : ViewerSignal(c, GateDirected) /\ GateBudget'

SpecGate == Init /\ [][NextGate]_vars

\* The registry with the disconnect callback run twice.
NextCleanup ==
  \/ NextSession
  \/ \E c \in AllIds : DisconnectAgain(c)

SpecCleanup == Init /\ [][NextCleanup]_vars

\* Connections paging through the buffer while datagrams arrive and the
\* clock advances: every request at the start indexes and chunk sizes
\* below (10 is what app.js asks for), from any connection in any order,
\* whether or not it follows the answer before it.
PagingStartIndexes == { <<0>>, <<1>>, <<2>> }
PagingChunkSizes == { <<-1>>, <<1>>, <<10>> }
\* An empty datagram and one of 3 bytes: the second of 3 bytes evicts
\* every packet before it.
PagingDatagrams == { <<>>, <<77, 97, 110>> }
PagingPayloads ==
  { [defined |-> TRUE, startIndex |-> i, chunkSize |-> n] :
      i \in PagingStartIndexes, n \in PagingChunkSizes }

PagingBudget ==
  /\ nextSocket <= MaxPagerSockets
  /\ 2 * udpCount + 7 * nextSocket + eventCount <= MaxPagingSteps

NextPaging ==
  \/ \E msg \in PagingDatagrams, sender \in UdpSenders :
       UdpMessage(msg, sender) /\ PagingBudget'
  \/ \E addr \in Addresses : Connect(addr) /\ PagingBudget'
  \/ \E c \in AllIds : Disconnect(c)
  \/ Tick(RateLimitWindow + 1)
  \/ \E c \in AllIds, requestInfo \in PagingPayloads :
       PagingRequest(c, requestInfo) /\ PagingBudget'

SpecPaging == Init /\ [][NextPaging]_vars


\* A live stream of the stream page and its followers: the server's
\* callbacks and the page's steps in every order.
NegotiationBudget ==
  /\ nextSocket <= MaxSessionSockets
  /\ nextSocket + eventCount <= MaxNegotiationSteps

NextNegotiation ==
  \/ \E addr \in Addresses : ConnectCallback(addr) /\ ServerTurn /\ NegotiationBudget'
  \/ \E addr \in Addresses : PageConnection(addr) /\ NegotiationBudget'
  \/ \E id \in GeneratedStreamIds : PageConnect(id)
  \/ PageDisconnect
  \/ \E c \in AllIds : DisconnectCallback(c) /\ ServerTurn
  \/ \E c \in AllIds \ {pageSocket}, data \in FollowerPayloads :
       RegisterViewerCallback(c, data) /\ ServerTurn /\ NegotiationBudget'
  \/ PageUplink /\ NegotiationBudget'
  \/ StartStreaming
  \/ MediaResolved
  \/ MediaRejected
  \/ StopStreaming
  \/ BroadcasterViewerConnected
  \/ BroadcasterViewerDisconnected
  \/ \E i \in DOMAIN pendingOffers : PageOffer(i)
  \/ \E i \in DOMAIN pendingOffers : PageOfferRejected(i)
  \/ \E g \in gathering : IceCandidate(g)

SpecNegotiation == Init /\ [][NextNegotiation]_vars

\* Everything that runs beside ingestion: datagrams, connections, status
\* queries and every client event (request-video-data with every payload,
\* the others with one well-formed payload each).
FrameBudget ==
  /\ nextSocket <= MaxSessionSockets
  /\ udpCount + nextSocket + eventCount + httpCount <= MaxFrameSteps

NextFrame ==
  \/ \E msg \in Datagrams, sender \in UdpSenders :
       UdpMessage(msg, sender) /\ FrameBudget'
  \/ \E addr \in Addresses : Connect(addr) /\ FrameBudget'
  \/ \E c \in AllIds : Disconnect(c)
  \/ \E ip \in HttpClients : ApiStatus(ip) /\ FrameBudget'
  \/ \E i \in 1..MaxFrameSteps : ApiStatusRoute(i)
  \/ \E c \in AllIds, requestInfo \in RequestPayloads :
       RequestVideoData(c, requestInfo) /\ FrameBudget'
  \/ \E c \in AllIds : WebrtcSignal(c, GateSignal) /\ FrameBudget'
  \/ \E c \in AllIds : RegisterBroadcaster(c, GateStream) /\ FrameBudget'
  \/ \E c \in AllIds : UnregisterBroadcaster(c, GateStream) /\ FrameBudget'
  \/ \E c \in AllIds : RegisterViewer(c, GateStream) /\ FrameBudget'
  \/ \E c \in AllIds : UnregisterViewer(c, GateStream) /\ FrameBudget'
  \/ \E c \in AllIds : BroadcasterSignal(c, GateDirected) /\ FrameBudget'
  \/ \E c \in AllIds : ViewerSignal(c, GateDirected) /\ FrameBudget'

SpecFrame == Init /\ [][NextFrame]_vars

(***************************************************************************)
(* Properties of the packet buffer.                                        *)
(***************************************************************************)
RECURSIVE SumOfSizes(_)
\* The sum of the size fields of the packets held.
SumOfSizes(buf) == IF buf = <<>> THEN 0 ELSE buf[1].size + SumOfSizes(Tail(buf))

\* The packet a datagram of the last step must have become.
IngestedPacket ==
  [ id |-> PacketId(lastEvent'.msg), data |-> lastEvent'.msg, timestamp |-> now,
    size |-> Len(lastEvent'.msg), seq |-> udpCount' ]

\* The longest suffix of buf whose sizes sum to at most the ceiling.
LongestFittingSuffix(buf) ==
  LET fits == { k \in 0..Len(buf) :
                  SumOfSizes(SubSeq(buf, k + 1, Len(buf))) <= MAX_BUFFER_SIZE }
      first == CHOOSE k \in fits : \A j \in fits : k <= j
  IN SubSeq(buf, first + 1, Len(buf))

\* C1: in every state (so after every ingestion) the sizes of the packets
\* held sum to at most MAX_BUFFER_SIZE, or the buffer holds exactly one packet.
C1_BufferBound ==
  SumOfSizes(videoBuffer) <= MAX_BUFFER_SIZE \/ Len(videoBuffer) = 1

\* A datagram was ingested, older packets were evicted for it, and several
\* packets are held.
C1_Witness ==
  /\ lastEvent.op = "udp-message"
  /\ Len(videoBuffer) >= 2
  /\ videoBuffer[1].seq > 1
  /\ SumOfSizes(videoBuffer) = MAX_BUFFER_SIZE

\* C2: after a datagram larger than the ceiling is ingested, the buffer holds
\* exactly that one packet.
C2_OversizedKept ==
  (lastEvent.op = "udp-message" /\ Len(lastEvent.msg) > MAX_BUFFER_SIZE)
    => /\ Len(videoBuffer) = 1
       /\ videoBuffer[1].data = lastEvent.msg
       /\ videoBuffer[1].seq = udpCount

\* C3: ingesting a datagram that fits under the ceiling leaves the longest
\* suffix of (previous buffer, then the new packet) that fits under the
\* ceiling.
C3_EvictionMinimal ==
  [][ (lastEvent'.op = "udp-message" /\ Len(lastEvent'.msg) <= MAX_BUFFER_SIZE)
        => videoBuffer' = LongestFittingSuffix(Append(videoBuffer, IngestedPacket))
    ]_vars

\* Scenario A: three 2-byte datagrams; the buffer holds the 2nd and the 3rd.
C3_Witness ==
  /\ lastEvent.op = "udp-message"
  /\ udpCount = 3
  /\ Len(videoBuffer) = 2
  /\ videoBuffer[1].seq = 2 /\ videoBuffer[2].seq = 3
  /\ videoBuffer[1].size = 2 /\ videoBuffer[2].size = 2
  /\ SumOfSizes(videoBuffer) = 4

(***************************************************************************)
(* Properties of the data window.                                          *)
(***************************************************************************)
Base64Index(ch) == CHOOSE i \in 0..63 : Base64Alphabet[i + 1] = ch

RECURSIVE Base64Decode(_)
\* The bytes a padded base64 text stands for.
Base64Decode(text) ==
  IF text = <<>> THEN <<>>
  ELSE LET a == Base64Index(text[1])
           b == Base64Index(text[2])
           rest == Base64Decode(SubSeq(text, 5, Len(text)))
       IN IF text[3] = "=" THEN << a * 4 + b \div 16 >>
          ELSE IF text[4] = "="
          THEN << a * 4 + b \div 16, (b % 16) * 16 + Base64Index(text[3]) \div 4 >>
          ELSE << a * 4 + b \div 16, (b % 16) * 16 + Base64Index(text[3]) \div 4,
                  (Base64Index(text[3]) % 4) * 64 + Base64Index(text[4]) >> \o rest

\* chunk is the wire form of packet: same id, timestamp and size, and a
\* base64 text that decodes to the payload.
ChunkOf(packet, chunk) ==
  /\ DOMAIN chunk = {"id", "data", "timestamp", "size"}
  /\ chunk.id = packet.id
  /\ Base64Decode(chunk.data) = packet.data
  /\ chunk.timestamp = packet.timestamp
  /\ chunk.size = packet.size

\* The last callback answered a request-video-data event.
WindowAnswered ==
  /\ lastEvent.op = "request-video-data"
  /\ lastEvent.outcome = "handled"

\* The video-data message of the last callback.
WindowResponse == delivered[lastEvent.socket][1]

Clamp(x, lo, hi) == Max(lo, Min(x, hi))

\* C4: the buffer is always a contiguous run of the arrival sequence, in
\* arrival order; a packet that stays in the buffer is unchanged, a packet
\* that enters it is the datagram as ingested; and every video-data response
\* is a contiguous run of the buffer, in buffer order.
C4_OrderPreservation ==
  [][ /\ \A i \in DOMAIN videoBuffer' : videoBuffer'[i].seq \in 1..udpCount'
      /\ \A i \in 1..(Len(videoBuffer') - 1) :
           videoBuffer'[i + 1].seq = videoBuffer'[i].seq + 1
      /\ \A i \in DOMAIN videoBuffer' :
           IF videoBuffer'[i].seq <= udpCount
           THEN \E j \in DOMAIN videoBuffer : videoBuffer[j] = videoBuffer'[i]
           ELSE lastEvent'.op = "udp-message" /\ videoBuffer'[i] = IngestedPacket
      /\ WindowAnswered' =>
           /\ Len(delivered'[lastEvent'.socket]) = 1
           /\ LET chunks == delivered'[lastEvent'.socket][1].chunks
              IN \E first \in 1..(Len(videoBuffer) + 1) :
                   \A k \in 1..Len(chunks) :
                     /\ first + k - 1 <= Len(videoBuffer)
                     /\ ChunkOf(videoBuffer[first + k - 1], chunks[k])
    ]_vars

\* A window of two different packets is returned after an eviction.
C4_Witness ==
  /\ WindowAnswered
  /\ Len(videoBuffer) >= 2
  /\ videoBuffer[1].seq > 1
  /\ Len(WindowResponse.chunks) >= 2
  /\ WindowResponse.chunks[1] # WindowResponse.chunks[2]

\* C5: a request with an integer startIndex on a non-empty buffer is answered,
\* and the slice returned starts at buffer position
\* clamp(startIndex, 0, length - 1).
C5_StartIndexClamped ==
  (WindowAnswered /\ Len(videoBuffer) > 0 /\ lastEvent.data.startIndex # <<>>)
    => /\ Len(delivered[lastEvent.socket]) = 1
       /\ WindowResponse.event = "video-data"
       /\ LET start == Clamp(lastEvent.data.startIndex[1], 0, Len(videoBuffer) - 1)
          IN \A k \in 1..Len(WindowResponse.chunks) :
               /\ start + k <= Len(videoBuffer)
               /\ ChunkOf(videoBuffer[start + k], WindowResponse.chunks[k])

\* C6: a request with an integer chunkSize n is answered with at most
\* min(n, 20) chunks (none when that is not positive).
C6_ChunkCountBounded ==
  (WindowAnswered /\ lastEvent.data.chunkSize # <<>>)
    => Len(WindowResponse.chunks)
         <= Max(0, Min(lastEvent.data.chunkSize[1], MaxChunkSize))

(***************************************************************************)
(* Properties of the registry.                                             *)
(***************************************************************************)
\* The last step ran the callback of event op on a payload it could read,
\* past the rate gate.
Processed(op) ==
  /\ lastEvent'.op = op
  /\ lastEvent'.outcome = "handled"

\* The follower set of a stream before the step.
FollowersOf(streamId) == IF MapHas(viewers, streamId) THEN viewers[streamId] ELSE {}

\* The stream-ended messages for streamId among msgs.
StreamEndedIn(msgs, streamId) ==
  { i \in DOMAIN msgs : msgs[i].event = "stream-ended" /\ msgs[i].streamId = streamId }

\* C7: a processed register-broadcaster for a stream stores the sender as its
\* one source, and while the process lives the stored source stays until the
\* next processed register-broadcaster for the stream, an
\* unregister-broadcaster by the stored source or the stored source's
\* disconnect.
C7_SingleSource ==
  [][ \A s \in StreamKeys :
        /\ (Processed("register-broadcaster") /\ lastEvent'.data.streamId = s)
             => /\ MapHas(broadcasters', s)
                /\ broadcasters'[s] = lastEvent'.socket
        /\ ( /\ MapHas(broadcasters, s)
             /\ ~crashed'
             /\ ~(Processed("register-broadcaster") /\ lastEvent'.data.streamId = s)
             /\ ~( /\ Processed("unregister-broadcaster")
                   /\ lastEvent'.data.streamId = s
                   /\ lastEvent'.socket = broadcasters[s] )
             /\ ~(lastEvent'.op = "disconnect" /\ lastEvent'.socket = broadcasters[s]) )
             => /\ MapHas(broadcasters', s)
                /\ broadcasters'[s] = broadcasters[s]
    ]_vars

\* Connection 2 has just registered as source of s1 over connection 1, whose
\* role entry still names s1.
C7_Witness ==
  /\ lastEvent.op = "register-broadcaster"
  /\ lastEvent.outcome = "handled"
  /\ lastEvent.socket = 2
  /\ lastEvent.data.streamId = "s1"
  /\ broadcasters["s1"] = 2
  /\ MapHas(socketRoles, 1)
  /\ socketRoles[1] = [role |-> "broadcaster", streamId |-> "s1"]

\* C8: an unregister-broadcaster from a connection that is not the stored
\* source of the stream changes none of broadcasters, viewers and socketRoles
\* and sends nothing.
C8_StaleUnregisterIgnored ==
  [][ ( /\ Processed("unregister-broadcaster")
        /\ ~( /\ MapHas(broadcasters, lastEvent'.data.streamId)
              /\ broadcasters[lastEvent'.data.streamId] = lastEvent'.socket ) )
        => /\ UNCHANGED << broadcasters, viewers, socketRoles >>
           /\ delivered' = NoMessages
    ]_vars

\* C9: an unregister-broadcaster from the stored source of a stream removes
\* the stream from broadcasters and viewers, and every open connection of its
\* follower set gets exactly one stream-ended message for it.
C9_UnregisterEndsStream ==
  [][ \A s \in StreamKeys :
        ( /\ Processed("unregister-broadcaster")
          /\ lastEvent'.data.streamId = s
          /\ MapHas(broadcasters, s)
          /\ broadcasters[s] = lastEvent'.socket )
          => /\ ~MapHas(broadcasters', s)
             /\ ~MapHas(viewers', s)
             /\ \A f \in FollowersOf(s) \cap DOMAIN sockets :
                  Cardinality(StreamEndedIn(delivered'[f], s)) = 1
    ]_vars

\* The source of a stream with two open followers has unregistered: the
\* stream is gone and each follower holds its stream-ended message.
C9_Witness ==
  /\ lastEvent.op = "unregister-broadcaster"
  /\ lastEvent.outcome = "handled"
  /\ ~MapHas(broadcasters, lastEvent.data.streamId)
  /\ \E f, g \in DOMAIN sockets :
       /\ f # g
       /\ f # lastEvent.socket
       /\ g # lastEvent.socket
       /\ delivered[f] = << [event |-> "stream-ended",
                             streamId |-> lastEvent.data.streamId,
                             timestamp |-> now] >>
       /\ delivered[g] = delivered[f]

\* C10: when the stored source of a stream disconnects, the stream is removed
\* from broadcasters and viewers and every open connection of its follower
\* set gets a stream-ended message for it whose reason is the source's
\* disconnect.
C10_SourceDisconnectEndsStream ==
  [][ \A s \in StreamKeys :
        ( /\ lastEvent'.op = "disconnect"
          /\ MapHas(broadcasters, s)
          /\ broadcasters[s] = lastEvent'.socket )
          => /\ ~MapHas(broadcasters', s)
             /\ ~MapHas(viewers', s)
             /\ \A f \in FollowersOf(s) \cap DOMAIN sockets' :
                  \E i \in StreamEndedIn(delivered'[f], s) :
                    delivered'[f][i].reason = "broadcaster-disconnected"
    ]_vars

\* C11: a register-viewer for a stream that has no source sends
\* stream-unavailable for that stream to the sender and nothing to anyone
\* else, and leaves broadcasters, viewers and socketRoles as they were.
C11_ViewerOfMissingStream ==
  [][ ( /\ Processed("register-viewer")
        /\ ~MapHas(broadcasters, lastEvent'.data.streamId) )
        => /\ UNCHANGED << broadcasters, viewers, socketRoles >>
           /\ delivered' =
                [ NoMessages EXCEPT ![lastEvent'.socket] =
                    << [ event |-> "stream-unavailable",
                         streamId |-> lastEvent'.data.streamId,
                         timestamp |-> now ] >> ]
    ]_vars

\* Scenario B with a bystander: s1 has no source, another stream has one, and
\* of two open connections only the sender holds a stream-unavailable message.
C11_Witness ==
  /\ lastEvent.op = "register-viewer"
  /\ lastEvent.outcome = "handled"
  /\ lastEvent.data.streamId = "s1"
  /\ ~MapHas(broadcasters, "s1")
  /\ broadcasters # EmptyMap
  /\ Cardinality(DOMAIN sockets) >= 2
  /\ delivered[lastEvent.socket] =
       << [event |-> "stream-unavailable", streamId |-> "s1", timestamp |-> now] >>
  /\ \A c \in DOMAIN sockets \ {lastEvent.socket} : delivered[c] = <<>>

\* The follower-disconnected notices among msgs.
ViewerDisconnectedIn(msgs) ==
  { i \in DOMAIN msgs : msgs[i].event = "broadcaster-viewer-disconnected" }

\* C12: an unregister-viewer for a stream from a connection that is not in
\* the stream's follower set changes none of broadcasters, viewers and
\* socketRoles, and the source of the stream gets no follower-disconnected
\* notice.
C12_UnregisterNonFollowerNoOp ==
  [][ ( /\ Processed("unregister-viewer")
        /\ lastEvent'.socket \notin FollowersOf(lastEvent'.data.streamId) )
        => /\ UNCHANGED << broadcasters, viewers, socketRoles >>
           /\ \A c \in AllIds : ViewerDisconnectedIn(delivered'[c]) = {}
    ]_vars

\* C13: a second run of the disconnect callback for the same connection,
\* straight after the first, changes none of broadcasters, viewers,
\* socketRoles and socketRateLimits and sends nothing.
C13_CleanupIdempotent ==
  [][ lastEvent'.op = "disconnect-again"
        => /\ UNCHANGED << broadcasters, viewers, socketRoles, socketRateLimits >>
           /\ delivered' = NoMessages
    ]_vars

\* The callback ran twice for a follower whose stream still has an open
\* source (which the first run notified) and whose rate window existed.
C13_Witness ==
  /\ lastEvent.op = "disconnect-again"
  /\ lastEvent.first = "viewer"
  /\ \E s \in DOMAIN broadcasters :
       /\ broadcasters[s] \in DOMAIN sockets
       /\ MapHas(socketRoles, broadcasters[s])
       /\ socketRoles[broadcasters[s]].streamId = s
       /\ MapHas(viewers, s)
  /\ delivered = NoMessages

(***************************************************************************)
(* Properties of the relays.                                               *)
(***************************************************************************)
\* The message a processed directed relay event of the last step carries.
DirectedMessage ==
  IF lastEvent'.op = "broadcaster-signal"
  THEN [ event |-> "viewer-signal", data |-> lastEvent'.data,
         broadcasterId |-> lastEvent'.socket, timestamp |-> now ]
  ELSE [ event |-> "broadcaster-signal", data |-> lastEvent'.data,
         viewerId |-> lastEvent'.socket, timestamp |-> now ]

\* C18: a processed broadcaster-signal or viewer-signal naming target t is
\* delivered once to the open connection t and to nobody else; when no open
\* connection has id t nothing is delivered to anyone, the process lives on
\* and no connection is closed.
C18_DirectedRelay ==
  [][ (Processed("broadcaster-signal") \/ Processed("viewer-signal"))
        => /\ delivered' =
                IF lastEvent'.data.target \in DOMAIN sockets
                THEN [NoMessages EXCEPT ![lastEvent'.data.target] = <<DirectedMessage>>]
                ELSE NoMessages
           /\ ~crashed'
           /\ sockets' = sockets
    ]_vars

\* A signal was sent to a connection that has closed: two connections are
\* open and nobody holds a message.
C18_Witness ==
  /\ lastEvent.op \in {"broadcaster-signal", "viewer-signal"}
  /\ lastEvent.outcome = "handled"
  /\ lastEvent.data.target \in 1..nextSocket
  /\ lastEvent.data.target \notin DOMAIN sockets
  /\ Cardinality(DOMAIN sockets) = 2
  /\ delivered = NoMessages
  /\ ~crashed

\* C19: a processed webrtc-signal is delivered exactly once to every open
\* connection other than the sender and not to the sender.
C19_BroadcastRelay ==
  [][ Processed("webrtc-signal")
        => \A k \in AllIds :
             delivered'[k] =
               IF k \in DOMAIN sockets \ {lastEvent'.socket}
               THEN << [ event |-> "webrtc-signal", data |-> lastEvent'.data,
                         senderId |-> lastEvent'.socket, timestamp |-> now ] >>
               ELSE <<>>
    ]_vars

\* Three connections are open; the two that did not send hold the message.
C19_Witness ==
  /\ lastEvent.op = "webrtc-signal"
  /\ lastEvent.outcome = "handled"
  /\ Cardinality(DOMAIN sockets) = 3
  /\ delivered[lastEvent.socket] = <<>>
  /\ \A k \in DOMAIN sockets \ {lastEvent.socket} :
       /\ Len(delivered[k]) = 1
       /\ delivered[k][1].senderId = lastEvent.socket

(***************************************************************************)
(* Properties of the rate gates.                                           *)
(***************************************************************************)
\* The events of the relays, and all events checked by the per-connection gate.
SignalOps == {"webrtc-signal", "broadcaster-signal", "viewer-signal"}
SocketOps == RoleOps \cup SignalOps \cup {"request-video-data"}

\* The limit the callback of event op hands to the gate.
LimitOf(op) == IF op \in SignalOps THEN SignalEventLimit ELSE StrictEventLimit

\* One check of a fixed-window gate: window is the subject's window before
\* the check (<<>> when it has none), after is its window after the check.
FixedWindowCheck(window, after, limit, interval, allowed) ==
  IF window = <<>> \/ now - window[1].timestamp > interval
  THEN allowed /\ after.timestamp = now /\ after.count = 1
  ELSE IF window[1].count >= limit
  THEN ~allowed /\ after = window[1]
  ELSE /\ allowed
       /\ after.timestamp = window[1].timestamp
       /\ after.count = window[1].count + 1

\* C14: every check of the per-connection gate and of the per-address HTTP
\* gate follows the fixed-window rule: a subject with no window, or whose
\* window started more than the interval ago, is allowed and gets the window
\* (now, 1); otherwise a subject whose count has reached the limit is denied
\* and its window is unchanged; otherwise it is allowed and its count grows by
\* one.  So limit checks in one interval are allowed, the next is denied, and
\* no count exceeds its limit.
C14_FixedWindow ==
  /\ [](\A ip \in DOMAIN clientRequests :
         clientRequests[ip].count \in 1..rateLimitMaxRequests)
  /\ [](\A c \in DOMAIN socketRateLimits :
         socketRateLimits[c].count \in 1..SignalEventLimit)
  /\ [][ /\ (lastEvent'.op \in SocketOps /\ ~crashed')
             => FixedWindowCheck(
                  IF MapHas(socketRateLimits, lastEvent'.socket)
                  THEN <<socketRateLimits[lastEvent'.socket]>> ELSE <<>>,
                  socketRateLimits'[lastEvent'.socket],
                  LimitOf(lastEvent'.op), RateLimitWindow,
                  lastEvent'.outcome = "handled")
         /\ lastEvent'.op = "http-request"
             => FixedWindowCheck(
                  IF MapHas(clientRequests, lastEvent'.ip)
                  THEN <<clientRequests[lastEvent'.ip]>> ELSE <<>>,
                  clientRequests'[lastEvent'.ip],
                  rateLimitMaxRequests, rateLimitInterval,
                  lastEvent'.outcome = "handled")
      ]_vars

\* A connection whose window started at 0 with 5 events allowed is denied its
\* 6th event at time 1000, the last instant of the interval.
C14_Witness ==
  /\ lastEvent.op \in SocketOps \ SignalOps
  /\ lastEvent.outcome = "rate-limited"
  /\ socketRateLimits[lastEvent.socket] = [timestamp |-> 0, count |-> StrictEventLimit]
  /\ now = RateLimitWindow

\* C15: a role-change event from a connection that has sent fewer than 5
\* role-change events is allowed, whatever else the connection has sent.
C15_WindowPerClass ==
  [][ ( /\ lastEvent'.op \in RoleOps
        /\ (IF MapHas(roleEventsSent, lastEvent'.socket)
            THEN roleEventsSent[lastEvent'.socket] ELSE 0) < StrictEventLimit )
        => lastEvent'.outcome # "rate-limited"
    ]_vars

\* C16: an event denied by the per-connection gate changes neither the
\* buffer nor broadcasters, viewers and socketRoles, sends nothing, and
\* leaves the sender connected and the process alive.
C16_DeniedEventDropped ==
  [][ (lastEvent'.op \in SocketOps /\ lastEvent'.outcome = "rate-limited")
        => /\ UNCHANGED << videoBuffer, broadcasters, viewers, socketRoles, sockets >>
           /\ delivered' = NoMessages
           /\ lastEvent'.socket \in DOMAIN sockets'
           /\ ~crashed'
    ]_vars

\* An event of a registered source was denied; the source is still
\* connected and registered.
C16_Witness ==
  /\ lastEvent.op \in SocketOps
  /\ lastEvent.outcome = "rate-limited"
  /\ lastEvent.socket \in DOMAIN sockets
  /\ MapHas(broadcasters, "s1")
  /\ broadcasters["s1"] = lastEvent.socket
  /\ delivered = NoMessages

(***************************************************************************)
(* Properties of connection handling.                                      *)
(***************************************************************************)
\* The number of open connections whose originating address is addr.
OpenFrom(addr) == Cardinality({ c \in DOMAIN sockets : sockets[c] = addr })

\* C17: at most MaxConnectionsPerIp open connections share an address; a
\* connection that arrives while that many from its address are open is
\* closed at once, gets no connection-established message and never enters
\* io.sockets.sockets (no callback is registered for it); a connection that
\* arrives while fewer are open is admitted and greeted.
C17_ConnectionCap ==
  /\ [](\A addr \in CapAddresses :
         OpenFrom(addr) <= MaxConnectionsPerIp)
  /\ [][ lastEvent'.op = "connection"
          => IF OpenFrom(lastEvent'.address) >= MaxConnectionsPerIp
             THEN /\ lastEvent'.outcome = "refused"
                  /\ sockets' = sockets
                  /\ lastEvent'.socket \notin DOMAIN sockets'
                  /\ delivered' = NoMessages
             ELSE /\ lastEvent'.outcome = "handled"
                  /\ DOMAIN sockets' = DOMAIN sockets \cup {lastEvent'.socket}
                  /\ Len(delivered'[lastEvent'.socket]) = 1
                  /\ delivered'[lastEvent'.socket][1].event = "connection-established"
      ]_vars

\* Scenario D: the 11th connection from an address with 10 open connections
\* has been refused.
C17_Witness ==
  /\ lastEvent.op = "connection"
  /\ lastEvent.outcome = "refused"
  /\ lastEvent.socket = MaxConnectionsPerIp + 1
  /\ OpenFrom(lastEvent.address) = MaxConnectionsPerIp
  /\ delivered = NoMessages

(***************************************************************************)
(* Properties of the UDP socket.                                           *)
(***************************************************************************)
\* C20: the UDP socket keeps listening whatever has happened to it: as long
\* as the process lives, the next datagram can be ingested (and after an
\* error event the process lives and the socket is open).
C20_ListeningAfterError ==
  /\ lastEvent.op = "udp-error" => (~crashed /\ udpOpen)
  /\ (~crashed /\ udpCount < MaxDatagrams)
       => ENABLED (\E msg \in Datagrams, sender \in UdpSenders :
                     UdpMessage(msg, sender))

(***************************************************************************)
(* Properties of the callbacks as a whole.                                 *)
(***************************************************************************)
\* C21: no event of a client, whatever its payload (a missing payload
\* included), ends the process: every callback returns without throwing.
C21_NoHandlerThrows ==
  /\ ~crashed
  /\ lastEvent.op \in SocketOps => lastEvent.outcome # "crashed"

\* C22: an event sent by one connection never changes what is held for
\* another connection c: the socketRoles entry of c stays as it was, and a
\* stream whose stored source is c still has c as its stored source.
C22_ClientIsolation ==
  [][ lastEvent'.op \in SocketOps
        => \A c \in DOMAIN sockets \ {lastEvent'.socket} :
             /\ MapHas(socketRoles, c) =
                  MapHas(socketRoles', c)
             /\ MapHas(socketRoles, c) => socketRoles'[c] = socketRoles[c]
             /\ \A s \in DOMAIN broadcasters :
                  broadcasters[s] = c
                    => (MapHas(broadcasters', s) /\ broadcasters'[s] = c)
    ]_vars

(***************************************************************************)
(* Properties of followers and takeovers.                                  *)
(***************************************************************************)
\* C23: a register-viewer for stream s that is processed while s has a
\* stored source puts the sender into the follower set of s (keeping the
\* followers already there), records the sender's role as viewer of s, and
\* sends exactly one message: a broadcaster-viewer-connected carrying the
\* sender's id, to the source stored for s.
C23_RegisterViewerNotifiesSource ==
  [][ ( /\ Processed("register-viewer")
        /\ MapHas(broadcasters, lastEvent'.data.streamId) )
        => LET c == lastEvent'.socket
               s == lastEvent'.data.streamId
               b == broadcasters[s]
           IN /\ MapHas(viewers', s)
              /\ viewers'[s] = FollowersOf(s) \cup {c}
              /\ \A t \in DOMAIN viewers' \ {s} :
                   MapHas(viewers, t) /\ viewers'[t] = viewers[t]
              /\ socketRoles'[c] = [role |-> "viewer", streamId |-> s]
              /\ broadcasters' = broadcasters
              /\ \A k \in AllIds \ {b} : delivered'[k] = <<>>
              /\ Len(delivered'[b]) = 1
              /\ delivered'[b][1].event = "broadcaster-viewer-connected"
              /\ delivered'[b][1].viewerId = c
    ]_vars

\* C24: a register-broadcaster for stream s that is processed sends one
\* stream-available message for s to every open connection but the sender,
\* nothing to the sender, and leaves s with a follower set: an empty one if
\* it had none, otherwise the one it had with the members it had.
C24_RegisterAnnouncesStream ==
  [][ Processed("register-broadcaster")
        => LET c == lastEvent'.socket
               s == lastEvent'.data.streamId
           IN /\ \A k \in AllIds :
                   IF k \in DOMAIN sockets \ {c}
                   THEN /\ Len(delivered'[k]) = 1
                        /\ delivered'[k][1].event = "stream-available"
                        /\ delivered'[k][1].streamId = s
                   ELSE delivered'[k] = <<>>
              /\ MapHas(viewers', s)
              /\ viewers'[s] = FollowersOf(s)
              /\ \A t \in DOMAIN viewers' \ {s} :
                   MapHas(viewers, t) /\ viewers'[t] = viewers[t]
    ]_vars

\* A connection has taken over stream s1 while it had a follower: the
\* follower is still in the set and has been told, the sender has not.
C24_Witness ==
  /\ lastEvent.op = "register-broadcaster"
  /\ lastEvent.outcome = "handled"
  /\ lastEvent.data.streamId = "s1"
  /\ broadcasters["s1"] = lastEvent.socket
  /\ delivered[lastEvent.socket] = <<>>
  /\ \E f \in FollowersOf("s1") \ {lastEvent.socket} :
       /\ f \in DOMAIN sockets
       /\ Len(delivered[f]) = 1
       /\ delivered[f][1].event = "stream-available"

\* C25: the departure of a connection that is not the stored source of a
\* stream never ends that stream.  When connection c unregisters as source
\* of s, or disconnects, while another connection is the stored source of s
\* (c has been superseded), the stored source of s stays, the follower set
\* of s keeps every member other than c (every member, on an unregister),
\* and no stream-ended for s is sent to anyone.
C25_SupersededDepartureKeepsStream ==
  [][ \A s \in DOMAIN broadcasters :
        ( /\ broadcasters[s] # lastEvent'.socket
          /\ \/ Processed("unregister-broadcaster") /\ lastEvent'.data.streamId = s
             \/ lastEvent'.op = "disconnect" )
          => /\ MapHas(broadcasters', s)
             /\ broadcasters'[s] = broadcasters[s]
             /\ MapHas(viewers, s)
                  => /\ MapHas(viewers', s)
                     /\ viewers'[s] \subseteq viewers[s]
                     /\ viewers[s] \ {lastEvent'.socket} \subseteq viewers'[s]
                     /\ lastEvent'.op = "unregister-broadcaster"
                          => viewers'[s] = viewers[s]
             /\ \A k \in AllIds : StreamEndedIn(delivered'[k], s) = {}
    ]_vars

\* A superseded source of s1 (its role entry still says broadcaster of s1,
\* another open connection is the stored source) has disconnected: the
\* stream still has its source and its follower, and nothing was sent.
C25_Witness ==
  /\ lastEvent.op = "disconnect"
  /\ lastEvent.role = "broadcaster"
  /\ lastEvent.streamId = "s1"
  /\ MapHas(broadcasters, "s1")
  /\ broadcasters["s1"] \in DOMAIN sockets
  /\ FollowersOf("s1") \ {broadcasters["s1"]} # {}
  /\ delivered = NoMessages

(***************************************************************************)
(* Properties of startup and of the data-rate metric.                      *)
(***************************************************************************)
\* C26: when binding the UDP socket fails at startup the process ends: it
\* does not go on running with the HTTP / Socket.IO server alone.
C26_BindFailureFatal ==
  lastEvent.op = "udp-bind-error" => crashed

\* C27: the metric is recomputed at most once per elapsed second.  A
\* datagram that arrives less than 1000 ms after the last recomputation
\* leaves currentDataRate and lastDataRateUpdate as they were and adds its
\* size to bytesReceivedLastSecond; a datagram that arrives later recomputes
\* the metric, stamps the recomputation and sets the counter back to 0.
\* Nothing else touches the three, and two recomputations are at least
\* 1000 ms apart.
C27_RecomputedOncePerSecond ==
  [][ /\ lastEvent'.op = "udp-message"
        => IF now - lastDataRateUpdate < DataRateWindow
           THEN /\ currentDataRate' = currentDataRate
                /\ lastDataRateUpdate' = lastDataRateUpdate
                /\ bytesReceivedLastSecond'
                     = bytesReceivedLastSecond + Len(lastEvent'.msg)
           ELSE /\ lastDataRateUpdate' = now
                /\ bytesReceivedLastSecond' = 0
      /\ lastEvent'.op # "udp-message"
        => UNCHANGED << currentDataRate, lastDataRateUpdate,
                        bytesReceivedLastSecond >>
      /\ lastDataRateUpdate' # lastDataRateUpdate
        => lastDataRateUpdate' - lastDataRateUpdate >= DataRateWindow
    ]_vars

\* A non-empty datagram arrived 999 ms after the start of the window: the
\* metric and its stamp are those of the start, the counter has the bytes.
C27_Witness ==
  /\ lastEvent.op = "udp-message"
  /\ now = DataRateWindow - 1
  /\ lastDataRateUpdate = 0
  /\ currentDataRate = 0
  /\ bytesReceivedLastSecond > 0

RECURSIVE BytesSince(_, _)
\* The bytes of the datagrams of log that arrived at time t or later.
BytesSince(log, t) ==
  IF log = <<>> THEN 0
  ELSE (IF log[1].time >= t THEN log[1].size ELSE 0) + BytesSince(Tail(log), t)

\* C28: a recomputed metric is the number of bytes ingested in the second
\* that ends at the recomputation: it counts no byte that arrived more than
\* 1000 ms before, whatever the gaps between datagrams.
C28_RateIsBytesOfLastSecond ==
  [][ (lastEvent'.op = "udp-message" /\ lastDataRateUpdate' # lastDataRateUpdate)
        => currentDataRate' = BytesSince(arrivals', now - DataRateWindow)
    ]_vars

(***************************************************************************)
(* Frame of the packet buffer.                                             *)
(***************************************************************************)
\* C29: only the ingestion of a datagram changes videoBuffer.  A client
\* event (request-video-data included, rate-limited or not), a connection,
\* a disconnection and a status query leave its contents and its length as
\* they were: reading a window removes nothing.
C29_BufferFrame ==
  [][ lastEvent'.op # "udp-message" => videoBuffer' = videoBuffer ]_vars

(***************************************************************************)
(* Negotiation between the stream page and its followers.                  *)
(***************************************************************************)
\* The follower a value held by the page came from.
FollowerOf(v) == IF v.object THEN v.payload.viewerId ELSE v.id

\* C30: when follower f registers for the live stream of the stream page,
\* the page's handling of broadcaster-viewer-connected leads to an offer
\* that the server relays to f: the offer the page sends for f, once it
\* has reached the server and been processed, puts one viewer-signal of
\* type offer whose target id is f into f's hands (f being connected).  And every follower gets a
\* peer-connection entry of its own at the page: handling the notification
\* for a follower that has no entry adds one entry and overwrites none.
C30_OfferReachesFollower ==
  [][ /\ (uplink # <<>> /\ uplink' = Tail(uplink)
            /\ Head(uplink).event = "broadcaster-signal"
            /\ Head(uplink).data.type = "offer"
            /\ Processed("broadcaster-signal"))
        => LET f == FollowerOf(Head(uplink).viewerId)
           IN f \in DOMAIN sockets
                => /\ Len(delivered'[f]) = 1
                   /\ delivered'[f][1].event = "viewer-signal"
                   /\ delivered'[f][1].data.type = "offer"
                   /\ delivered'[f][1].data.target = f
      /\ lastEvent'.op = "page-viewer-connected"
        => LET f == lastEvent'.message.viewerId
           IN /\ \E k \in DOMAIN peerConnections' :
                   FollowerOf(peerConnections'[k].viewerId) = f
              /\ (\A k \in DOMAIN peerConnections :
                    FollowerOf(peerConnections[k].viewerId) # f)
                   => Cardinality(DOMAIN peerConnections')
                        = Cardinality(DOMAIN peerConnections) + 1
    ]_vars

\* C33: every video-data response agrees with the buffer it was cut from:
\* 0 <= nextIndex <= buffer length, the chunks are the packets at positions
\* nextIndex - (number of chunks) up to nextIndex (counted from 0), hasMore
\* is true exactly when nextIndex < buffer length, and the response for an
\* empty buffer is chunks = [], nextIndex = 0, hasMore = false.
C33_ResponseSelfConsistent ==
  WindowAnswered =>
    LET r == WindowResponse
        first == r.nextIndex - Len(r.chunks)
    IN /\ 0 <= r.nextIndex
       /\ r.nextIndex <= Len(videoBuffer)
       /\ first >= 0
       /\ \A i \in 1..Len(r.chunks) :
            first + i \in 1..Len(videoBuffer) /\ r.chunks[i].id = videoBuffer[first + i].id
       /\ r.hasMore <=> r.nextIndex < Len(videoBuffer)
       /\ Len(videoBuffer) = 0
            => r.chunks = <<>> /\ r.nextIndex = 0 /\ ~r.hasMore


(***************************************************************************)
(* Properties of paging through the buffer.                                *)
(***************************************************************************)
\* Arrival numbers of the buffered packets, oldest first.
BufferedSeqs == [ i \in 1..Len(videoBuffer) |-> videoBuffer[i].seq ]

\* The sequence of connection c started at 0, asked for chunkSize >= 1,
\* went on only while hasMore was true, and no datagram has been ingested
\* since its first request.
QuietPaging(c) ==
  /\ MapHas(pager, c)
  /\ pager[c].sized
  /\ ~pager[c].polled
  /\ pager[c].udpAtStart = udpCount

NoRepeat(seq) == \A i, j \in 1..Len(seq) : i # j => seq[i] # seq[j]

\* C34: with no datagram ingested in between, a connection that starts at
\* startIndex 0 and keeps requesting from the returned nextIndex
\* (chunkSize >= 1) while hasMore is true has received, after every answer,
\* the first nextIndex packets of the buffer, each once and in order;
\* hasMore is true exactly while packets are left, so when it comes back
\* false the connection holds the whole buffer; and that happens after
\* finitely many requests: every answer hands over at least one packet, so
\* there are at most as many answers as buffered packets (one for an empty
\* buffer).
C34_QuietPagingComplete ==
  \A c \in DOMAIN pager :
    QuietPaging(c) =>
      /\ pager[c].received = SubSeq(BufferedSeqs, 1, Len(pager[c].received))
      /\ NoRepeat(pager[c].received)
      /\ Len(pager[c].received) = pager[c].nextIndex
      /\ pager[c].requests <= Max(pager[c].nextIndex, 1)
      /\ pager[c].nextIndex <= Len(videoBuffer)
      /\ pager[c].hasMore <=> pager[c].nextIndex < Len(videoBuffer)
      /\ ~pager[c].hasMore => pager[c].received = BufferedSeqs

\* A connection has fetched a buffer of two packets in two answers, one
\* packet each; in between one of its requests was dropped by the rate
\* limiter and repeated after the window had passed.
C34_Witness ==
  \E c \in DOMAIN pager :
    /\ QuietPaging(c)
    /\ ~pager[c].hasMore
    /\ pager[c].requests = 2
    /\ pager[c].dropped
    /\ Len(videoBuffer) = 2
    /\ pager[c].received = BufferedSeqs

RelayedSender(m) ==
  IF m.event = "webrtc-signal" THEN m.senderId
  ELSE IF m.event = "viewer-signal" THEN m.broadcasterId
  ELSE m.viewerId

C38_SenderNotForged ==
  (lastEvent.op \in {"webrtc-signal", "broadcaster-signal", "viewer-signal"}
     /\ lastEvent.outcome = "handled")
  => \A r \in DOMAIN delivered : \A i \in DOMAIN delivered[r] :
       RelayedSender(delivered[r][i]) = lastEvent.socket

\* A relayed signal whose payload named another connection as the sender.
C38_Witness ==
  /\ lastEvent.op = "broadcaster-signal"
  /\ lastEvent.outcome = "handled"
  /\ "claimed" \in DOMAIN lastEvent.data
  /\ lastEvent.data.claimed # <<lastEvent.socket>>
  /\ \E r \in DOMAIN delivered : delivered[r] # <<>>

(***************************************************************************)
(* Properties of the registries over whole runs.                           *)
(***************************************************************************)
\* C37: a broadcaster-viewer-disconnected message naming follower f is
\* delivered to a connection only if a broadcaster-viewer-connected message
\* naming f was delivered to that connection before and no
\* broadcaster-viewer-disconnected message naming f has been delivered to
\* it since.
C37_NoSpuriousDisconnectNotice ==
  [][ \A b \in AllIds : \A i \in ViewerDisconnectedIn(delivered'[b]) :
        <<b, delivered'[b][i].viewerId>> \in notices
    ]_vars


\* C36: no registry entry dangles: every connection id stored as the source
\* of a stream and every id in a follower set is the id of an open
\* connection.
C36_NoDanglingEntries ==
  /\ \A s \in DOMAIN broadcasters : broadcasters[s] \in DOMAIN sockets
  /\ \A s \in DOMAIN viewers : viewers[s] \subseteq DOMAIN sockets

\* C39: the streams that have a follower set are the streams that have a
\* source.
C39_RegistryKeysAgree == DOMAIN viewers = DOMAIN broadcasters


\* One stream has ended while another, with a follower, goes on.
C39_Witness ==
  /\ lastEvent.op \in {"unregister-broadcaster", "disconnect"}
  /\ DOMAIN broadcasters # {}
  /\ DOMAIN broadcasters # StreamKeys
  /\ \E s \in DOMAIN viewers : viewers[s] # {}

=============================================================================
